---------------------------- MODULE Spec2Model ----------------------------
(***************************************************************************)
(* A model of discord-purge (src/src/main.go): the rate-limit aware        *)
(* request executor, the snowflake ordering utility, the search deletion   *)
(* walkers, the history-scan deleter, the reaction sweep and the PurgeAll  *)
(* orchestrator.                                                           *)
(*                                                                         *)
(* Strings that the code parses (message IDs, cursors) are sequences of    *)
(* characters; a character is a digit 0..9 or the non-digit NonDigit.      *)
(* Durations are counted in milliseconds.                                  *)
(***************************************************************************)
EXTENDS Integers, Sequences, FiniteSets, TLC

(***************************************************************************)
(* Request executor: requestWithBody                                       *)
(***************************************************************************)
VARIABLES
    rq,        \* position of the executor: "running" | "returned"
    attempt,   \* the loop variable of requestWithBody
    calls,     \* HTTP calls made for this logical request (httpClient.Do)
    slept,     \* total milliseconds slept by this logical request
    lastWait,  \* the last wait computed by this logical request, 0 when none yet
    result,    \* what requestWithBody returned: [status, err]
    n429,      \* the server answers the first n429 calls with 429 ...
    after,     \* ... and every later call with this response
    method,    \* the request's method
    route,     \* the request's path, as the route it belongs to
    reqValid   \* whether http.NewRequest accepts method and URL

VARIABLES
    pc,     \* the control position of the single thread
    msgs,   \* the messages: records [id, author, ch]
    live,   \* IDs of the messages that exist now
    sw,     \* locals of SearchGuildMessages / SearchDMMessages
    hs,     \* locals of iterateAndDeleteChannel
    ds,     \* locals of deepScanGuildMessages
    obs,    \* observations of the run (history variables)
    opts,   \* PurgeOptions and dataPackagePath, the inputs of PurgeAll
    pa,     \* locals of PurgeAll
    rr,     \* locals of removeReactionsFromChannel
    myReacts,  \* the caller's reactions that exist now: <<message ID, emoji>>
    srv,    \* the service: free in its answers, or answering by fixed facts
    tw      \* the harness that runs a walker twice

VARIABLES
    fn,     \* the pure function that is applied, "" when none is
    arg,    \* its arguments
    res     \* its result, once it has returned

pureVars == <<fn, arg, res>>

VARIABLES
    mn      \* locals of main, and the requests it has issued itself

VARIABLES
    dc      \* locals of discoverAllGuildChannelsAndThreads and of its listings

\* What neither the executor nor a walker nor PurgeAll touches.
apart == <<pureVars, mn, dc>>

walkVars == <<pc, msgs, live, sw, hs, ds, obs, opts, pa, rr, myReacts, srv, tw, apart>>

reqVars == <<rq, attempt, calls, slept, lastWait, result, n429, after, method, route, reqValid>>

\* Bound: the longest run of 429 responses the server is made to give.
Max429 == 6

\* The attempt budget of requestWithBody: for attempt := 0; attempt < 5.
MutRetryBudget == 5 + 1
RetryBudget == 5

\* A float64 of seconds, held exactly as g * 10^9 + v milliseconds with
\* g >= 0, and 0 <= v < 10^9 when g > 0.
Float(g, v) == [g |-> g, v |-> v]
Ms(n) == Float(0, n)
Greater(a, b) == a.g > b.g \/ (a.g = b.g /\ a.v > b.v)
Less(a, b) == Greater(b, a)
Plus(a, n) ==
    IF a.v + n >= 1000000000 THEN Float(a.g + 1, a.v + n - 1000000000) ELSE Float(a.g, a.v + n)

\* A header or body field: missing, rejected by strconv.ParseFloat, or a number.
Absent == [kind |-> "absent", v |-> Ms(0)]
Unparsable == [kind |-> "unparsable", v |-> Ms(0)]
Num(n) == [kind |-> "number", v |-> Ms(n)]
\* A number of seconds beyond what time.Duration holds: 10^10 seconds.
Huge == [kind |-> "number", v |-> Float(10000, 0)]

\* What the server may answer once it stops answering 429: a status, or no
\* answer at all (a transport failure of httpClient.Do).
TransportError == [neterr |-> TRUE, status |-> 0]
Status(s) == [neterr |-> FALSE, status |-> s]
FinalAnswers == {Status(200), Status(204), Status(403), Status(404), Status(500), TransportError}

Methods == {"GET", "DELETE", "POST"}
\* A path either contains "/users/@me/threads/archived/private" or does not.
JoinedPrivateArchiveRoute == "/channels/{id}/users/@me/threads/archived/private"
PrivateArchiveRoute == "/channels/{id}/threads/archived/private"
OtherRoute == "/channels/{id}/messages/{id}"
Routes == {JoinedPrivateArchiveRoute, PrivateArchiveRoute, OtherRoute}

\* strings.Contains(path, "/users/@me/threads/archived/private")
IsStrictArchiveRoute(r) == r = JoinedPrivateArchiveRoute

\* The values (milliseconds) a 429 response may carry in the Retry-After
\* header, the X-RateLimit-Reset-After header and the body's retry_after.
HeaderValues == {Absent, Unparsable, Num(-1000), Num(0), Num(800), Num(7000), Huge}
BodyValues == {Absent, Num(-1000), Num(0), Num(800), Num(9000), Huge}

IsNumber(h) == h.kind = "number"

\* A variant: without a Retry-After header the reset-after header is taken
\* whatever its size.
MutWaitTime(retryAfter, resetAfter, bodyRetryAfter, m, r) ==
    LET w0 == Ms(5000)
        w1 == IF IsNumber(retryAfter) THEN retryAfter.v ELSE w0
        w2 == IF IsNumber(resetAfter) /\ (~IsNumber(retryAfter) \/ Greater(resetAfter.v, w1)) THEN resetAfter.v ELSE w1
        w3 == IF IsNumber(bodyRetryAfter) /\ Greater(bodyRetryAfter.v, Ms(0)) /\ Greater(bodyRetryAfter.v, w2) THEN bodyRetryAfter.v ELSE w2
        w4 == Plus(w3, 1000)
        w5 == IF Less(w4, Ms(2000)) THEN Ms(2000) ELSE w4
    IN  IF m = "GET" /\ IsStrictArchiveRoute(r) /\ Less(w5, Ms(6000)) THEN Ms(6000) ELSE w5

\* The wait computed from one 429 response, lines 188-218.
WaitTime(retryAfter, resetAfter, bodyRetryAfter, m, r) ==
    LET w0 == Ms(5000)
        w1 == IF IsNumber(retryAfter) THEN retryAfter.v ELSE w0
        w2 == IF IsNumber(resetAfter) /\ Greater(resetAfter.v, w1) THEN resetAfter.v ELSE w1
        w3 == IF IsNumber(bodyRetryAfter) /\ Greater(bodyRetryAfter.v, Ms(0)) /\ Greater(bodyRetryAfter.v, w2)
              THEN bodyRetryAfter.v ELSE w2
        w4 == Plus(w3, 1000)
        w5 == IF Less(w4, Ms(2000)) THEN Ms(2000) ELSE w4
    IN  IF m = "GET" /\ IsStrictArchiveRoute(r) /\ Less(w5, Ms(6000)) THEN Ms(6000) ELSE w5

\* time.Sleep(time.Duration(waitTime*1000) * time.Millisecond), line 220, in
\* milliseconds slept, for waits below 2^64 nanoseconds: the product is an
\* int64 of nanoseconds, it wraps to a negative number from 2^63 nanoseconds
\* (9223372036855 milliseconds) on, and time.Sleep returns at once for a
\* duration that is not positive.
Sleep(w) ==
    IF w.g > 9223 \/ (w.g = 9223 /\ w.v >= 372036855) THEN 0
    ELSE IF w.g = 0 /\ w.v <= 0 THEN 0
    ELSE w.g * 1000000000 + w.v

Is2xx(s) == s >= 200 /\ s < 300

\* The answer of the server to the next HTTP call of this logical request.
Answer == IF calls < n429 THEN Status(429) ELSE after

NoResult == [status |-> 0, err |-> "pending"]

InitReq ==
    /\ rq = "running"
    /\ attempt = 0
    /\ calls = 0
    /\ slept = 0
    /\ lastWait = Ms(0)
    /\ result = NoResult
    /\ n429 \in 0..Max429
    /\ after \in FinalAnswers
    /\ method \in Methods
    /\ route \in Routes
    /\ reqValid \in BOOLEAN

ReqReturn(status, err) ==
    /\ rq' = "returned"
    /\ result' = [status |-> status, err |-> err]

\* http.NewRequest fails: lines 166-169.
ReqBuildError ==
    /\ rq = "running" /\ attempt < RetryBudget
    /\ ~reqValid
    /\ ReqReturn(0, "creating request")
    /\ UNCHANGED <<attempt, calls, slept, lastWait, n429, after, method, route, reqValid, walkVars>>

\* httpClient.Do fails: lines 175-178.
ReqTransportError ==
    /\ rq = "running" /\ attempt < RetryBudget
    /\ reqValid
    /\ Answer = TransportError
    /\ calls' = calls + 1
    /\ ReqReturn(0, "executing request")
    /\ UNCHANGED <<attempt, slept, lastWait, n429, after, method, route, reqValid, walkVars>>

\* A 2xx response: lines 183-185.
Req2xx ==
    /\ rq = "running" /\ attempt < RetryBudget
    /\ reqValid
    /\ ~Answer.neterr /\ Is2xx(Answer.status)
    /\ calls' = calls + 1
    /\ ReqReturn(Answer.status, "nil")
    /\ UNCHANGED <<attempt, slept, lastWait, n429, after, method, route, reqValid, walkVars>>

\* line 187: the only response that is waited on and tried again.
MutRetried(ans) == ~ans.neterr /\ ans.status \in {429, 500}
Retried(ans) == ans = Status(429)

\* A 429 response: compute the wait, sleep, continue; lines 187-228.
Req429 ==
    /\ rq = "running" /\ attempt < RetryBudget
    /\ reqValid
    /\ Retried(Answer)
    /\ calls' = calls + 1
    /\ \E ra \in HeaderValues, rs \in HeaderValues, b \in BodyValues :
          /\ lastWait' = WaitTime(ra, rs, b, method, route)
          /\ slept' = slept + Sleep(WaitTime(ra, rs, b, method, route))
    /\ attempt' = attempt + 1
    /\ UNCHANGED <<rq, result, n429, after, method, route, reqValid, walkVars>>

\* Any other status is returned as it is: line 230.
ReqOtherStatus ==
    /\ rq = "running" /\ attempt < RetryBudget
    /\ reqValid
    /\ ~Answer.neterr /\ ~Is2xx(Answer.status) /\ ~Retried(Answer)
    /\ calls' = calls + 1
    /\ ReqReturn(Answer.status, "nil")
    /\ UNCHANGED <<attempt, slept, lastWait, n429, after, method, route, reqValid, walkVars>>

\* The loop ends with the budget used up: line 233.
ReqExhausted ==
    /\ rq = "running" /\ attempt >= RetryBudget
    /\ ReqReturn(429, "still rate limited after 5 retries")
    /\ UNCHANGED <<attempt, calls, slept, lastWait, n429, after, method, route, reqValid, walkVars>>

NextReq ==
    \/ ReqBuildError
    \/ ReqTransportError
    \/ Req2xx
    \/ Req429
    \/ ReqOtherStatus
    \/ ReqExhausted


(***************************************************************************)
(* Ordering utility: olderSnowflakeID, previousSnowflakeID                 *)
(***************************************************************************)
\* Bound: the width of the unsigned integers strconv.ParseUint accepts
\* (64 in the code).
UintBits == 7
MaxUint == 2^UintBits - 1

\* The only character of the model that is not a decimal digit; it sorts
\* after every digit, as letters do in ASCII.
NonDigit == 10
IsDigit(c) == c \in 0..9

RECURSIVE DigitsValue(_)
DigitsValue(s) ==
    IF Len(s) = 0 THEN 0
    ELSE LET v == DigitsValue(SubSeq(s, 1, Len(s) - 1))
         IN  IF v > MaxUint THEN v ELSE v * 10 + s[Len(s)]

\* strconv.ParseUint(s, 10, 64): err is set for the empty string, for a
\* string with a non-digit and for a value out of range.
ParseUint(s) ==
    IF Len(s) = 0 \/ (\E i \in 1..Len(s) : ~IsDigit(s[i])) \/ DigitsValue(s) > MaxUint
    THEN [err |-> TRUE, n |-> 0]
    ELSE [err |-> FALSE, n |-> DigitsValue(s)]

RECURSIVE FormatUint(_)
\* strconv.FormatUint(n, 10)
FormatUint(n) == IF n < 10 THEN <<n>> ELSE FormatUint(n \div 10) \o <<n % 10>>

\* A comparison that never finds the first string smaller.
MutStrLess(a, b) == FALSE

\* Go's < on strings: bytewise lexicographic order.
RECURSIVE StrLess(_, _)
StrLess(a, b) ==
    IF Len(b) = 0 THEN FALSE
    ELSE IF Len(a) = 0 THEN TRUE
    ELSE IF a[1] # b[1] THEN a[1] < b[1]
    ELSE StrLess(Tail(a), Tail(b))

\* The comparison of the two strings alone.
MutOlderSnowflakeID(currentOldest, candidate) ==
    IF candidate = <<>> THEN currentOldest
    ELSE IF currentOldest = <<>> THEN candidate
    ELSE IF StrLess(candidate, currentOldest) THEN candidate
    ELSE currentOldest

\* The last ID that is not empty.
MutOlderIsLast(currentOldest, candidate) ==
    IF candidate = <<>> THEN currentOldest ELSE candidate

\* lines 258-285
olderSnowflakeID(currentOldest, candidate) ==
    IF candidate = <<>> THEN currentOldest
    ELSE IF currentOldest = <<>> THEN candidate
    ELSE LET cur == ParseUint(currentOldest)
             cand == ParseUint(candidate)
         IN  IF ~cur.err /\ ~cand.err
             THEN (IF cand.n < cur.n THEN candidate ELSE currentOldest)
             ELSE IF Len(candidate) < Len(currentOldest) THEN candidate
             ELSE IF Len(candidate) > Len(currentOldest) THEN currentOldest
             ELSE IF StrLess(candidate, currentOldest) THEN candidate
             ELSE currentOldest

\* The decrement without the test for zero: it wraps.
MutPreviousSnowflakeID(id) ==
    LET p == ParseUint(id)
    IN  IF p.err THEN id ELSE FormatUint((p.n - 1) % (MaxUint + 1))

\* lines 287-293
previousSnowflakeID(id) ==
    LET p == ParseUint(id)
    IN  IF p.err \/ p.n = 0 THEN id ELSE FormatUint(p.n - 1)

(***************************************************************************)
(* The remote service                                                      *)
(*                                                                         *)
(* msgs is every message that exists or once existed, live the IDs of the  *)
(* messages that exist now.  The service is honest: what it lists carries  *)
(* the message's true author and channel, a delete is answered 2xx only for *)
(* a message that exists (and removes it), and 404 only for one that is     *)
(* gone (a live message answered 404 was removed by a third party in the    *)
(* meantime).  The search index may list messages that are gone and may     *)
(* miss messages that exist; it honours max_id.                             *)
(***************************************************************************)

\* What no step of a run changes: the message table, the inputs and the
\* variables of the executor.
fixed == <<msgs, opts, srv, tw, reqVars, apart>>
\* What no step of a deletion walker changes.
outer == <<pa, rr, myReacts>>

callerID == "me"
otherID == "other"

\* Bound: the most records one search response carries.
MaxPage == 3
\* Bound: the page size of the history endpoint (limit=100 in the code).
PageLimit == 2
\* Bound: the waits for the search index a walker accepts in a row
\* (const maxSearchIndexWaits = 40, line 33, scaled down).
maxSearchIndexWaits == 3

\* The guild a channel belongs to; "" for a DM or group DM channel.
GuildOf(c) ==
    CASE c \in {"c1", "c2"} -> "g1"
      [] c \in {"c3"} -> "g2"
      [] OTHER -> ""

\* Everything a walker or a sweep may be run on.
Containers == {"g1", "g2", "c1", "c2", "c3", "d1", "d2"}

GuildChannels(g) == {c \in {"c1", "c2", "c3"} : GuildOf(c) = g}

Msg(id, author, ch) == [id |-> id, author |-> author, ch |-> ch]

MsgOf(id) == CHOOSE m \in msgs : m.id = id
IdsOf(S) == {m.id : m \in S}

\* Numeric order of two message IDs, as the service orders snowflakes.
IdLess(a, b) == ParseUint(a).n < ParseUint(b).n

\* A message belongs to the container a walker is run on.
InContainer(m, kind, target) ==
    IF kind = "guild" THEN GuildOf(m.ch) = target ELSE m.ch = target

\* The messages of S, newest first.
RECURSIVE NewestFirst(_)
NewestFirst(S) ==
    IF S = {} THEN <<>>
    ELSE LET m == CHOOSE x \in S : \A y \in S : ~IdLess(x.id, y.id)
         IN  <<m>> \o NewestFirst(S \ {m})

Prefix(q, n) == SubSeq(q, 1, IF Len(q) < n THEN Len(q) ELSE n)

\* --- answers of the service ---------------------------------------------
Ans(s, b) == [neterr |-> FALSE, status |-> s, body |-> b]
NetErr == [neterr |-> TRUE, status |-> 0, body |-> ""]

\* The free service answers every request as it likes, within what an
\* honest service can answer.  The deterministic service answers by fixed
\* facts: the messages its search index holds (it lists them newest first,
\* MaxPage to a page, and only those that exist unless the index is stale),
\* the messages whose delete it refuses with 403, the containers whose
\* search it refuses with 403 and the channels whose history it fails to
\* serve (500).
FreeService ==
    [det |-> FALSE, indexed |-> {}, stale |-> FALSE, refuses |-> {}, nosearch |-> {},
     nohistory |-> {}]

\* The page a search of the deterministic service returns.
SearchPage(kind, target, maxID) ==
    LET q == Prefix(NewestFirst({m \in msgs : /\ InContainer(m, kind, target)
                                             /\ m.id \in srv.indexed
                                             /\ (srv.stale \/ m.id \in live)
                                             /\ (maxID = <<>> \/ ~IdLess(maxID, m.id))}),
                    MaxPage)
    IN  [k \in 1..Len(q) |-> [id |-> q[k].id, author |-> q[k].author, ch |-> q[k].ch,
                              hit |-> q[k].author = callerID]]

\* To a search request.  A 200 carries a body: unparsable, with the retry
\* flag, without results, or with a page of messages.
SearchAnswers(kind, target, maxID) ==
    IF srv.det
    THEN {IF target \in srv.nosearch THEN Ans(403, "")
          ELSE IF SearchPage(kind, target, maxID) = <<>> THEN Ans(200, "total 0")
          ELSE Ans(200, "page")}
    ELSE {NetErr} \cup {Ans(x, "") : x \in {202, 403, 400, 404, 500}}
                  \cup {Ans(200, b) : b \in {"garbled", "retry", "total 0", "no messages", "page"}}

\* line 739 (913): result.TotalResults == 0 || len(result.Messages) == 0
NoResults(ans) == ans.body \in {"total 0", "no messages"}

\* The records a search response for the container may list.
SearchRecords(kind, target, maxID) ==
    {[id |-> m.id, author |-> m.author, ch |-> IF nochan THEN "" ELSE m.ch, hit |-> h] :
        m \in {x \in msgs : /\ InContainer(x, kind, target)
                            /\ (maxID = <<>> \/ ~IdLess(maxID, x.id))},
        nochan \in (IF kind = "guild" THEN BOOLEAN ELSE {FALSE}),
        h \in BOOLEAN}
    \cup {[id |-> <<>>, author |-> callerID, ch |-> "", hit |-> TRUE]}

\* To a message delete.
DeleteAnswers(id) ==
    IF srv.det
    THEN {IF id \notin live THEN Ans(404, "")
          ELSE IF id \in srv.refuses THEN Ans(403, "")
          ELSE Ans(204, "")}
    ELSE IF id \in live
    THEN {NetErr} \cup {Ans(x, "") : x \in {200, 204, 400, 403, 404, 500}}
    ELSE {NetErr, Ans(404, "")}

\* The messages that exist after the delete of id was answered ans.
LiveAfterDelete(id, ans) ==
    IF ~ans.neterr /\ ans.status \in {200, 204, 404} THEN live \ {id} ELSE live

\* To a history page request.
HistoryAnswers(ch) ==
    IF srv.det THEN {IF ch \in srv.nohistory THEN Ans(500, "") ELSE Ans(200, "page")}
    ELSE {NetErr} \cup {Ans(x, "") : x \in {403, 404, 500}}
                  \cup {Ans(200, b) : b \in {"garbled", "page"}}

(***************************************************************************)
(* History-scan deleter: iterateAndDeleteChannel                           *)
(***************************************************************************)
\* GET /channels/{ch}/messages?limit=100[&before=beforeID]: the newest
\* messages of the channel that are older than beforeID, newest first.
HistoryPage(ch, beforeID) ==
    Prefix(NewestFirst({m \in msgs : /\ m.id \in live
                                     /\ m.ch = ch
                                     /\ (beforeID = <<>> \/ IdLess(m.id, beforeID))}),
           PageLimit)

\* Observation: the last message delete issued (DELETE
\* /channels/{ch}/messages/{id}) with its answer and its issuer ("search":
\* the loop of a search walker, "scan": iterateAndDeleteChannel).  tick
\* changes with every delete issued, so that two deletes of one message
\* with one answer are two observations.
NoDelete == [id |-> <<>>, ch |-> "", neterr |-> FALSE, status |-> 0, by |-> "", tick |-> 0]
Delete(id, ch, ans, by) ==
    [id |-> id, ch |-> ch, neterr |-> ans.neterr, status |-> ans.status, by |-> by,
     tick |-> 1 - obs.last.tick]

NoScan == [ch |-> "", totalDeleted |-> 0, beforeID |-> <<>>, page |-> <<>>, i |-> 0,
           ret |-> "", count |-> 0, err |-> FALSE]

\* The call iterateAndDeleteChannel(ch); ret names the call site.
ScanCall(ch, ret) ==
    /\ hs' = [NoScan EXCEPT !.ch = ch, !.ret = ret]
    /\ pc' = "hfetch"

\* return totalDeleted, err
ScanReturn(f, err) ==
    /\ hs' = [f EXCEPT !.count = f.totalDeleted, !.err = err, !.page = <<>>, !.i = 0]
    /\ pc' = "hret"

\* After the message at position i: the next message, or lines 1034-1040.
\* (The variant takes the first message of the page for the cursor.)
MutScanAdvance(f) ==
    IF f.i < Len(f.page)
    THEN /\ hs' = [f EXCEPT !.i = @ + 1]
         /\ pc' = "hmsg"
    ELSE LET g == [f EXCEPT !.beforeID = f.page[1].id]
         IN  IF Len(f.page) < PageLimit
             THEN ScanReturn(g, FALSE)
             ELSE /\ hs' = [g EXCEPT !.page = <<>>, !.i = 0]
                  /\ pc' = "hfetch"
ScanAdvance(f) ==
    IF f.i < Len(f.page)
    THEN /\ hs' = [f EXCEPT !.i = @ + 1]
         /\ pc' = "hmsg"
    ELSE LET g == [f EXCEPT !.beforeID = f.page[Len(f.page)].id]
         IN  IF Len(f.page) < PageLimit
             THEN ScanReturn(g, FALSE)
             ELSE /\ hs' = [g EXCEPT !.page = <<>>, !.i = 0]
                  /\ pc' = "hfetch"

\* lines 997-1022: fetch one page.
iterateAndDeleteChannel_Fetch ==
    /\ pc = "hfetch"
    /\ \E ans \in HistoryAnswers(hs.ch) :
          IF ans.neterr THEN ScanReturn(hs, TRUE)
          ELSE IF ans.status = 403 THEN ScanReturn(hs, FALSE)
          ELSE IF ans.status # 200 THEN ScanReturn(hs, TRUE)
          ELSE IF ans.body = "garbled" THEN ScanReturn(hs, TRUE)
          ELSE IF HistoryPage(hs.ch, hs.beforeID) = <<>> THEN ScanReturn(hs, FALSE)
          ELSE /\ hs' = [hs EXCEPT !.page = HistoryPage(hs.ch, hs.beforeID), !.i = 1]
               /\ pc' = "hmsg"
    /\ UNCHANGED <<fixed, outer, live, sw, ds, obs>>

\* line 1025: a message of another author is passed over.
iterateAndDeleteChannel_Skip ==
    /\ pc = "hmsg"
    /\ hs.page[hs.i].author # callerID
    /\ ScanAdvance(hs)
    /\ UNCHANGED <<fixed, outer, live, sw, ds, obs>>

\* The delete counts for the scan: line 1027.
MutScanCounts(ans) == ~ans.neterr /\ ans.status \in {204, 200}
ScanCounts(ans) == ~ans.neterr /\ ans.status \in {204, 200, 404}

\* lines 1025-1031: delete a message of the caller.
iterateAndDeleteChannel_Delete ==
    /\ pc = "hmsg"
    /\ hs.page[hs.i].author = callerID
    /\ \E ans \in DeleteAnswers(hs.page[hs.i].id) :
          /\ ScanAdvance([hs EXCEPT !.totalDeleted = IF ScanCounts(ans) THEN @ + 1 ELSE @])
          /\ live' = LiveAfterDelete(hs.page[hs.i].id, ans)
          /\ obs' = [obs EXCEPT !.last = Delete(hs.page[hs.i].id, hs.ch, ans, "scan"),
                                !.ok = IF ~ans.neterr /\ ans.status \in {200, 204}
                                       THEN @ + 1 ELSE @]
    /\ UNCHANGED <<fixed, outer, sw, ds>>

(***************************************************************************)
(* Reaction sweep: removeReactionsFromChannel, removeReaction              *)
(***************************************************************************)
\* An emoji as the service reports it: a custom emoji has an ID.
Emoji(id, name) == [ID |-> id, Name |-> name]
ThumbsUp == Emoji("", "thumbsup")
Pepe == Emoji("555", "pepe")
EmojiOrder == <<ThumbsUp, Pepe>>

\* The reactions of other users: <<message ID, emoji>>.
OtherReacts == {<<<<4>>, Pepe>>, <<<<8>>, ThumbsUp>>}

\* msg.Reactions of a message: one entry per emoji in use, with the Me flag.
ReactionsOf(id) ==
    LET used(e) == <<id, e>> \in myReacts \cup OtherReacts
        flagged == [k \in 1..Len(EmojiOrder) |->
                      [Emoji |-> EmojiOrder[k], Me |-> <<id, EmojiOrder[k]>> \in myReacts]]
    IN  SelectSeq(flagged, LAMBDA x : used(x.Emoji))

\* The history page of the sweep: the messages with their reactions.
SweepPage(ch, beforeID) ==
    LET q == HistoryPage(ch, beforeID)
    IN  [k \in 1..Len(q) |-> [id |-> q[k].id, Reactions |-> ReactionsOf(q[k].id)]]

\* To the removal of the caller's reaction from a message.
ReactionAnswers(id, e) ==
    IF srv.det
    THEN {IF id \in live /\ <<id, e>> \in myReacts THEN Ans(204, "") ELSE Ans(404, "")}
    ELSE IF id \in live /\ <<id, e>> \in myReacts
    THEN {NetErr} \cup {Ans(x, "") : x \in {204, 403, 404, 500}}
    ELSE {NetErr, Ans(404, "")}

NoReaction == [id |-> <<>>, ch |-> "", emoji |-> ThumbsUp, neterr |-> FALSE, status |-> 0]

NoSweep == [ch |-> "", totalRemoved |-> 0, beforeID |-> <<>>, page |-> <<>>, i |-> 0, j |-> 0,
            ret |-> "", count |-> 0]

\* The call removeReactionsFromChannel(ch); ret names the call site.
SweepCall(ch, ret) ==
    /\ rr' = [NoSweep EXCEPT !.ch = ch, !.ret = ret]
    /\ pc' = "rfetch"

\* return totalRemoved
SweepReturn(f) ==
    /\ rr' = [f EXCEPT !.count = f.totalRemoved, !.page = <<>>, !.i = 0, !.j = 0]
    /\ pc' = "rret"

\* The positions of the page after <<i, j>> that hold a reaction of the caller.
MineAfter(page, i, j) ==
    {p \in UNION {{<<a, b>> : b \in 1..Len(page[a].Reactions)} : a \in 1..Len(page)} :
        /\ page[p[1]].Reactions[p[2]].Me
        /\ (p[1] > i \/ (p[1] = i /\ p[2] > j))}

\* lines 1113-1134: on to the next reaction with reaction.Me, or past the page.
SweepSeek(f) ==
    LET P == MineAfter(f.page, f.i, f.j)
    IN  IF P # {}
        THEN LET p == CHOOSE x \in P : \A y \in P :
                          x[1] < y[1] \/ (x[1] = y[1] /\ x[2] <= y[2])
             IN  /\ rr' = [f EXCEPT !.i = p[1], !.j = p[2]]
                 /\ pc' = "rremove"
        ELSE LET g == [f EXCEPT !.beforeID = f.page[Len(f.page)].id]
             IN  IF Len(f.page) < PageLimit
                 THEN SweepReturn(g)
                 ELSE /\ rr' = [g EXCEPT !.page = <<>>, !.i = 0, !.j = 0]
                      /\ pc' = "rfetch"

\* lines 1087-1111: fetch one page.
removeReactionsFromChannel_Fetch ==
    /\ pc = "rfetch"
    /\ \E ans \in HistoryAnswers(rr.ch) :
          IF ans.neterr \/ ans.status # 200 \/ ans.body = "garbled"
          THEN SweepReturn(rr)
          ELSE IF SweepPage(rr.ch, rr.beforeID) = <<>> THEN SweepReturn(rr)
          ELSE SweepSeek([rr EXCEPT !.page = SweepPage(rr.ch, rr.beforeID), !.i = 1, !.j = 0])
    /\ UNCHANGED <<fixed, live, sw, hs, ds, obs, pa, myReacts>>

\* Strings of the emoji functions are sequences of bytes.
Colon == 58
Percent == 37

\* net/url shouldEscape(c, encodePathSegment): letters, digits and - _ . ~
\* are kept, so are $ & + : = @; every other byte is escaped.
shouldEscape(c) ==
    ~ \/ c \in 97..122 \/ c \in 65..90 \/ c \in 48..57
      \/ c \in {45, 95, 46, 126}
      \/ c \in {36, 38, 43, 58, 61, 64}

\* The digit of "0123456789ABCDEF" for a value below 16.
UpperHex(n) == IF n < 10 THEN 48 + n ELSE 55 + n

RECURSIVE PathEscape(_)
\* url.PathEscape(s)
PathEscape(s) ==
    IF s = <<>> THEN <<>>
    ELSE (IF shouldEscape(s[1])
          THEN <<Percent, UpperHex(s[1] \div 16), UpperHex(s[1] % 16)>>
          ELSE <<s[1]>>) \o PathEscape(Tail(s))

\* An EmojiInfo: ID is a *string, nil at times.
EmojiInfo(idNil, id, name) == [idNil |-> idNil, ID |-> id, Name |-> name]

\* Everything is escaped for the path, the custom emoji too.
MutFormatEmojiForURL(emoji) ==
    PathEscape(IF ~emoji.idNil /\ emoji.ID # <<>>
               THEN emoji.Name \o <<Colon>> \o emoji.ID ELSE emoji.Name)

\* lines 1053-1060
formatEmojiForURL(emoji) ==
    IF ~emoji.idNil /\ emoji.ID # <<>>
    THEN emoji.Name \o <<Colon>> \o emoji.ID
    ELSE PathEscape(emoji.Name)

\* removeReaction returns nil: lines 1067-1073.
MutReactionRemoved(ans) == ~ans.neterr /\ ans.status \in {204, 200}
ReactionRemoved(ans) == ~ans.neterr /\ ans.status \in {204, 200, 404}

\* lines 1116-1122: remove one reaction of the caller.
removeReactionsFromChannel_Remove ==
    /\ pc = "rremove"
    /\ LET m == rr.page[rr.i]
           e == m.Reactions[rr.j].Emoji
       IN  \E ans \in ReactionAnswers(m.id, e) :
              /\ SweepSeek([rr EXCEPT !.totalRemoved = IF ReactionRemoved(ans) THEN @ + 1 ELSE @])
              /\ myReacts' = IF ReactionRemoved(ans) THEN myReacts \ {<<m.id, e>>} ELSE myReacts
              /\ obs' = [obs EXCEPT !.react = [id |-> m.id, ch |-> rr.ch, emoji |-> e,
                                               neterr |-> ans.neterr, status |-> ans.status]]
    /\ UNCHANGED <<fixed, live, sw, hs, ds, pa>>

(***************************************************************************)
(* Search deletion walkers: SearchGuildMessages, SearchDMMessages          *)
(***************************************************************************)
\* The locals of a search walker.  Beside them: n, the records of the page
\* read so far; hits, the IDs of the records among them that line 751 took
\* for hits of the caller; pages, exit, how: the pages read, the break and
\* the return statement taken.
NoWalk == [kind |-> "", target |-> "", totalDeleted |-> 0, indexWaitCount |-> 0,
           maxID |-> <<>>, skippedMessageIDs |-> {}, deletedThisRound |-> 0,
           oldestHitID |-> <<>>, seenInThisPage |-> {}, n |-> 0, page |-> <<>>,
           hits |-> {}, pages |-> 0, exit |-> "", count |-> 0, err |-> FALSE, how |-> ""]

NoDeep == [channelIDs |-> <<>>, i |-> 0, totalDeleted |-> 0]

\* The calls SearchGuildMessages(guildID) and SearchDMMessages(channelID).
WalkCall(kind, target) ==
    /\ sw' = [NoWalk EXCEPT !.kind = kind, !.target = target]
    /\ pc' = IF kind = "guild" THEN "gsearch" ELSE "dsearch"

\* return count, err; how names the return statement.
WalkReturn(f, count, err, how) ==
    /\ sw' = [f EXCEPT !.count = count, !.err = err, !.how = how]
    /\ pc' = "wret"

\* lines 704-712 and 728-736: one more wait for the index, or give up.
IndexWait(f) ==
    IF f.indexWaitCount + 1 >= maxSearchIndexWaits
    THEN WalkReturn([f EXCEPT !.indexWaitCount = @ + 1], f.totalDeleted, TRUE, "index")
    ELSE /\ sw' = [f EXCEPT !.indexWaitCount = @ + 1]
         /\ UNCHANGED pc

\* lines 745-747: the locals of one page.
PageStart(f) ==
    [f EXCEPT !.indexWaitCount = 0, !.deletedThisRound = 0, !.oldestHitID = <<>>,
              !.seenInThisPage = {}, !.n = 0, !.hits = {}, !.pages = @ + 1,
              !.page = IF srv.det THEN SearchPage(f.kind, f.target, f.maxID) ELSE <<>>]

\* range result.Messages: the record that comes next in the response.  The
\* page of the deterministic service is fixed with the response; the free
\* service may list any record of the container, up to MaxPage of them.
NextListed(f) ==
    IF srv.det
    THEN IF f.n < Len(f.page) THEN {f.page[f.n + 1]} ELSE {}
    ELSE SearchRecords(f.kind, f.target, f.maxID)

\* The loop over result.Messages is through.
PageRead(f) == srv.det => f.n = Len(f.page)

\* line 751 (925): the message is a hit authored by the caller.
MutIsOwnHit(r) == r.hit
IsOwnHit(r) == r.author = callerID /\ r.hit

\* lines 754-762 (928-930): the message is passed over without a delete.
MutPassedOver(f, r) ==
    \/ r.id = <<>>
    \/ r.id \in f.seenInThisPage
    \/ (f.kind = "guild" /\ r.ch = "")
PassedOver(f, r) ==
    \/ r.id = <<>>
    \/ r.id \in f.seenInThisPage
    \/ r.id \in f.skippedMessageIDs
    \/ (f.kind = "guild" /\ r.ch = "")

\* A listed message for which no delete is issued: lines 751-762.
WalkSkip(r) ==
    /\ sw.n < MaxPage
    /\ ~(IsOwnHit(r) /\ ~PassedOver(sw, r))
    /\ sw' = IF ~IsOwnHit(r) THEN [sw EXCEPT !.n = @ + 1]
             ELSE LET f == [sw EXCEPT !.n = @ + 1, !.hits = @ \cup {r.id},
                                      !.oldestHitID = olderSnowflakeID(@, r.id)]
                  IN  IF r.id = <<>> \/ r.id \in sw.seenInThisPage
                                     \/ r.id \in sw.skippedMessageIDs
                      THEN f
                      ELSE [f EXCEPT !.seenInThisPage = @ \cup {r.id},
                                     !.skippedMessageIDs = @ \cup {r.id}]
    /\ UNCHANGED <<pc, fixed, outer, live, hs, ds, obs>>

\* The effect of a delete's answer on the walker: lines 765-794 (934-963).
MutAfterDelete(f, id, ans) ==
    IF ans.neterr THEN f
    ELSE IF ans.status = 204 \/ ans.status = 200 \/ ans.status = 404
         THEN [f EXCEPT !.totalDeleted = @ + 1, !.deletedThisRound = @ + 1]
    ELSE IF ans.status = 403 \/ ans.status = 400
         THEN [f EXCEPT !.skippedMessageIDs = @ \cup {id}]
    ELSE f
AfterDelete(f, id, ans) ==
    IF ans.neterr THEN f
    ELSE IF ans.status = 204 \/ ans.status = 200
         THEN [f EXCEPT !.totalDeleted = @ + 1, !.deletedThisRound = @ + 1]
    ELSE IF ans.status = 404
         THEN [f EXCEPT !.deletedThisRound = @ + 1, !.skippedMessageIDs = @ \cup {id}]
    ELSE IF ans.status = 403 \/ ans.status = 400
         THEN [f EXCEPT !.skippedMessageIDs = @ \cup {id}]
    ELSE f

\* A listed message that is deleted: lines 751-796 (925-965).
WalkDelete(r) ==
    /\ sw.n < MaxPage
    /\ IsOwnHit(r) /\ ~PassedOver(sw, r)
    /\ \E ans \in DeleteAnswers(r.id) :
          /\ sw' = AfterDelete([sw EXCEPT !.n = @ + 1, !.hits = @ \cup {r.id},
                                          !.oldestHitID = olderSnowflakeID(@, r.id),
                                          !.seenInThisPage = @ \cup {r.id}],
                               r.id, ans)
          /\ live' = LiveAfterDelete(r.id, ans)
          /\ obs' = [obs EXCEPT !.last = Delete(r.id, IF sw.kind = "guild" THEN r.ch ELSE sw.target,
                                                ans, "search"),
                                !.sok = IF ~ans.neterr /\ ans.status \in {200, 204}
                                        THEN @ + 1 ELSE @,
                                !.ok = IF ~ans.neterr /\ ans.status \in {200, 204}
                                       THEN @ + 1 ELSE @]
    /\ UNCHANGED <<pc, fixed, outer, hs, ds>>

\* deletedThisRound, oldestHitID and seenInThisPage are declared in the loop
\* body: they end with the iteration.
EndOfIteration(f) ==
    [f EXCEPT !.deletedThisRound = 0, !.oldestHitID = <<>>, !.seenInThisPage = {}, !.n = 0,
              !.hits = {}, !.page = <<>>]

\* lines 801-815 (970-984): advance the cursor or leave the loop.
WalkPageEnd(exit) ==
    IF sw.oldestHitID = <<>>
    THEN /\ pc' = exit /\ sw' = EndOfIteration([sw EXCEPT !.exit = "no hit"])
    ELSE IF previousSnowflakeID(sw.oldestHitID) = sw.maxID
         THEN /\ pc' = exit /\ sw' = EndOfIteration([sw EXCEPT !.exit = "no progress"])
    ELSE /\ sw' = EndOfIteration([sw EXCEPT !.maxID = previousSnowflakeID(sw.oldestHitID)])
         /\ pc' = IF sw.kind = "guild" THEN "gsearch" ELSE "dsearch"

\* lines 715-722: a search status other than 200 and 202 is an error of the
\* guild walker, but for 403.
MutSearchFails(status) == TRUE
SearchFails(status) == status # 403

\* lines 694-743: one search request of the guild walker.
SearchGuildMessages_Search ==
    /\ pc = "gsearch"
    /\ \E ans \in SearchAnswers(sw.kind, sw.target, sw.maxID) :
          IF ans.neterr THEN WalkReturn(sw, sw.totalDeleted, TRUE, "request")
          ELSE IF ans.status = 202 THEN IndexWait(sw)
          ELSE IF ans.status # 200
               THEN WalkReturn([sw EXCEPT !.indexWaitCount = 0], sw.totalDeleted,
                               SearchFails(ans.status),
                               IF ans.status = 403 THEN "403" ELSE "status")
          ELSE IF ans.body = "garbled"
               THEN WalkReturn([sw EXCEPT !.indexWaitCount = 0], sw.totalDeleted, TRUE, "parse")
          ELSE IF ans.body = "retry" THEN IndexWait([sw EXCEPT !.indexWaitCount = 0])
          ELSE IF NoResults(ans)
               THEN /\ sw' = [sw EXCEPT !.indexWaitCount = 0, !.exit = ans.body]
                    /\ pc' = "gend"
          ELSE /\ sw' = PageStart(sw)
               /\ pc' = "gpage"
    /\ UNCHANGED <<fixed, outer, live, hs, ds, obs>>

SearchGuildMessages_Skip ==
    /\ pc = "gpage"
    /\ \E r \in NextListed(sw) : WalkSkip(r)

SearchGuildMessages_Delete ==
    /\ pc = "gpage"
    /\ \E r \in NextListed(sw) : WalkDelete(r)

SearchGuildMessages_PageEnd ==
    /\ pc = "gpage" /\ PageRead(sw)
    /\ WalkPageEnd("gend")
    /\ UNCHANGED <<fixed, outer, live, hs, ds, obs>>

\* line 820: the deep scan runs when nothing was deleted.
MutDeepScanWanted == FALSE
MutDeepScanAfterDeletes == sw.totalDeleted # 0
DeepScanWanted == sw.totalDeleted = 0

\* line 824, the deep scan not taken.
SearchGuildMessages_Return ==
    /\ pc = "gend"
    /\ ~DeepScanWanted
    /\ WalkReturn(sw, sw.totalDeleted, FALSE, "end")
    /\ UNCHANGED <<fixed, outer, live, hs, ds, obs>>

\* The order in which the service lists channels.
ChannelBefore(a, b) == <<a, b>> \in {<<"c1", "c2">>, <<"c1", "c3">>, <<"c2", "c3">>}

\* What discoverAllGuildChannelsAndThreads may return for a guild: some of
\* its channels and threads, each once; all of them from the deterministic
\* service.
DiscoveryResults(g) ==
    {q \in UNION {[1..k -> GuildChannels(g)] : k \in 0..Cardinality(GuildChannels(g))} :
        /\ \A i, j \in 1..Len(q) : i < j => ChannelBefore(q[i], q[j])
        /\ srv.det => Len(q) = Cardinality(GuildChannels(g))}

\* lines 820-822, 828-831: the deep scan starts with the discovery.
deepScanGuildMessages_Discover ==
    /\ pc = "gend"
    /\ DeepScanWanted
    /\ \E ids \in DiscoveryResults(sw.target) :
          IF ids = <<>>
          THEN /\ WalkReturn(sw, sw.totalDeleted, FALSE, "deep")
               /\ UNCHANGED <<hs, ds, obs>>
          ELSE /\ ds' = [channelIDs |-> ids, i |-> 1, totalDeleted |-> 0]
               /\ ScanCall(ids[1], "deep")
               /\ UNCHANGED <<sw, obs>>
    /\ UNCHANGED <<fixed, outer, live>>

\* lines 836-852: after the scan of one channel, the next or the return.
deepScanGuildMessages_Next ==
    /\ pc = "hret" /\ hs.ret = "deep"
    /\ LET total == IF hs.err THEN ds.totalDeleted ELSE ds.totalDeleted + hs.count
       IN  IF ds.i < Len(ds.channelIDs)
           THEN /\ ds' = [ds EXCEPT !.i = @ + 1, !.totalDeleted = total]
                /\ ScanCall(ds.channelIDs[ds.i + 1], "deep")
                /\ UNCHANGED <<sw, obs>>
           ELSE /\ ds' = NoDeep
                /\ hs' = NoScan
                /\ WalkReturn(sw, sw.totalDeleted + total, FALSE, "deep")
                /\ UNCHANGED obs
    /\ UNCHANGED <<fixed, outer, live>>

\* lines 864-917: one search request of the conversation walker.
SearchDMMessages_Search ==
    /\ pc = "dsearch"
    /\ \E ans \in SearchAnswers(sw.kind, sw.target, sw.maxID) :
          IF ans.neterr
          THEN /\ WalkReturn(sw, sw.totalDeleted, TRUE, "request") /\ UNCHANGED <<hs, obs>>
          ELSE IF ans.status = 202 THEN IndexWait(sw) /\ UNCHANGED <<hs, obs>>
          ELSE IF ans.status = 403 \/ ans.status = 400 \/ ans.status = 404
               THEN /\ sw' = [sw EXCEPT !.indexWaitCount = 0]
                    /\ ScanCall(sw.target, "fallback")
                    /\ UNCHANGED obs
          ELSE IF ans.status # 200
               THEN /\ sw' = [sw EXCEPT !.indexWaitCount = 0]
                    /\ ScanCall(sw.target, "fallback other")
                    /\ UNCHANGED obs
          ELSE IF ans.body = "garbled"
               THEN /\ WalkReturn([sw EXCEPT !.indexWaitCount = 0], sw.totalDeleted, TRUE, "parse")
                    /\ UNCHANGED <<hs, obs>>
          ELSE IF ans.body = "retry"
               THEN IndexWait([sw EXCEPT !.indexWaitCount = 0]) /\ UNCHANGED <<hs, obs>>
          ELSE IF NoResults(ans)
               THEN /\ WalkReturn([sw EXCEPT !.indexWaitCount = 0, !.exit = ans.body],
                                  sw.totalDeleted, FALSE, "end")
                    /\ UNCHANGED <<hs, obs>>
          ELSE /\ sw' = PageStart(sw)
               /\ pc' = "dpage"
               /\ UNCHANGED <<hs, obs>>
    /\ UNCHANGED <<fixed, outer, live, ds>>

SearchDMMessages_Skip ==
    /\ pc = "dpage"
    /\ \E r \in NextListed(sw) : WalkSkip(r)

SearchDMMessages_Delete ==
    /\ pc = "dpage"
    /\ \E r \in NextListed(sw) : WalkDelete(r)

\* lines 970-987
SearchDMMessages_PageEnd ==
    /\ pc = "dpage" /\ PageRead(sw)
    /\ IF sw.oldestHitID = <<>>
       THEN WalkReturn(EndOfIteration([sw EXCEPT !.exit = "no hit"]),
                       sw.totalDeleted, FALSE, "end")
       ELSE IF previousSnowflakeID(sw.oldestHitID) = sw.maxID
            THEN WalkReturn(EndOfIteration([sw EXCEPT !.exit = "no progress"]),
                            sw.totalDeleted, FALSE, "end")
       ELSE WalkPageEnd("dsearch")
    /\ UNCHANGED <<fixed, outer, live, hs, ds, obs>>

\* lines 887, 893 and 895: return totalDeleted + fallbackCount
MutFallbackCount(f, h) == f.totalDeleted
FallbackCount(f, h) == f.totalDeleted + h.count

\* lines 886-887 and 891-896: the fallback scan has returned.
SearchDMMessages_FallbackReturn ==
    /\ pc = "hret" /\ hs.ret \in {"fallback", "fallback other"}
    /\ WalkReturn(sw, FallbackCount(sw, hs), hs.err, hs.ret)
    /\ hs' = NoScan
    /\ UNCHANGED <<fixed, outer, live, ds, obs>>

(***************************************************************************)
(* Orchestrator: PurgeAll                                                  *)
(***************************************************************************)
isGuildExcluded(id) == id \in opts.ExcludedGuildIDs
MutIsDMExcluded(id) == FALSE
isDMExcluded(id) == id \in opts.ExcludedDMChannelIDs

\* lines 1321, 1388: processedDMs[chID]
MutAlreadyProcessed(chID) == FALSE
AlreadyProcessed(chID) == chID \in pa.processedDMs

\* lines 1226-1229 and alike: the error of a walker is printed, and the loop
\* goes on at next.
MutOnWalkError(err, next) == IF err THEN "done" ELSE next
OnWalkError(err, next) == next

\* --- answers of the listing calls ---------------------------------------
Failed == [err |-> TRUE, list |-> <<>>]
Listed(q) == [err |-> FALSE, list |-> q]

\* GetAllGuilds
GuildListAnswers == {Listed(<<"g1", "g2">>)} \cup (IF srv.det THEN {} ELSE {Failed})
\* GetDMChannels: the open conversations, each once.
DMListAnswers ==
    {Listed(<<"d1">>)} \cup (IF srv.det THEN {} ELSE {Failed, Listed(<<"d1", "d2">>)})
\* GetRelationships: the users the caller has a relationship with.
RelationshipAnswers == {Listed(<<"u1", "u2">>)} \cup (IF srv.det THEN {} ELSE {Failed})
\* OpenDMChannel: the conversation with the user.
DMOfUser(u) == IF u = "u1" THEN "d1" ELSE "d2"
OpenDMAnswers(u) ==
    {[err |-> FALSE, ch |-> DMOfUser(u)]}
    \cup (IF srv.det THEN {} ELSE {[err |-> TRUE, ch |-> ""]})
\* LoadDataPackageChannelIDs: every key of messages/index.json, which lists
\* the channels of guilds as well as the conversations.
PackageAnswers ==
    {[err |-> FALSE, ids |-> {"d2", "c1"}]}
    \cup (IF srv.det THEN {}
          ELSE {[err |-> TRUE, ids |-> {}], [err |-> FALSE, ids |-> {"d1"}]})

Range(q) == {q[k] : k \in 1..Len(q)}

NoPurge ==
    [phase |-> "", guilds |-> <<>>, gi |-> 0, channelsToProcess |-> <<>>, ci |-> 0,
     rels |-> <<>>, ri |-> 0, pkgLeft |-> {}, processedDMs |-> {}, sweepLeft |-> {},
     channelIDs |-> <<>>, chi |-> 0, guildReactions |-> 0, dmReactionCount |-> 0,
     totalDeleted |-> 0, totalDMMessages |-> 0, totalReactionsRemoved |-> 0,
     serverStats |-> <<>>]

\* A discovery source has yielded the channels S: the channels yielded so
\* far, and those yielded by more than one source.
Yielded(o, S) == [o EXCEPT !.yielded = @ \cup S, !.again = @ \cup (S \cap o.yielded)]

\* Observations of a run of PurgeAll: walks counts the calls of a search
\* walker per container, sweeps the calls of the reaction sweep per
\* conversation in phase 3b, swept holds the guilds swept in phase 3a,
\* failed tells that a walker has returned an error, ok counts the message
\* deletions of the run that were answered 200 or 204.

\* A walker is called on a container: one more walk of it.
Walked(o, c) == [o EXCEPT !.walks[c] = @ + 1, !.sok = 0]
\* A walker has returned to PurgeAll.
WalkedBack(o) == [o EXCEPT !.sok = 0, !.last = NoDelete, !.failed = @ \/ sw.err]

\* totalDMMessages += count; totalDeleted += count
CountDM(p, count) ==
    [p EXCEPT !.totalDMMessages = @ + count, !.totalDeleted = @ + count]

\* Phase 1, lines 1194-1212: the guild list, without the excluded guilds.
PurgeAll_GetAllGuilds ==
    /\ pc = "p1list"
    /\ \E a \in GuildListAnswers :
          /\ pa' = [pa EXCEPT !.phase = "p1", !.gi = 1,
                              !.guilds = IF a.err THEN <<>>
                                         ELSE IF opts.ExcludedGuildIDs # {}
                                              THEN SelectSeq(a.list, LAMBDA g : ~isGuildExcluded(g))
                                         ELSE a.list]
          /\ pc' = IF a.err THEN "p2alist" ELSE "p1loop"
    /\ UNCHANGED <<fixed, live, sw, hs, ds, obs, rr, myReacts>>

\* lines 1220-1226: the walker is called on the next guild.
PurgeAll_NextGuild ==
    /\ pc = "p1loop" /\ pa.gi <= Len(pa.guilds)
    /\ WalkCall("guild", pa.guilds[pa.gi])
    /\ obs' = Walked(obs, pa.guilds[pa.gi])
    /\ UNCHANGED <<fixed, live, hs, ds, pa, rr, myReacts>>

PurgeAll_GuildsEnd ==
    /\ pc = "p1loop" /\ pa.gi > Len(pa.guilds)
    /\ pc' = "p2alist"
    /\ UNCHANGED <<fixed, live, sw, hs, ds, obs, pa, rr, myReacts>>

\* lines 1226-1246: the walker has returned, with or without an error.
PurgeAll_GuildDone ==
    /\ pc = "wret" /\ pa.phase = "p1"
    /\ pa' = [pa EXCEPT !.totalDeleted = @ + sw.count, !.gi = @ + 1,
                        !.serverStats = Append(@, [GuildID |-> sw.target,
                                                   Messages |-> sw.count, Reactions |-> 0])]
    /\ pc' = OnWalkError(sw.err, "p1loop")
    /\ sw' = NoWalk
    /\ obs' = WalkedBack(obs)
    /\ UNCHANGED <<fixed, live, hs, ds, rr, myReacts>>

\* Phase 2a, lines 1255-1275: the open conversations, without the excluded.
PurgeAll_GetDMChannels ==
    /\ pc = "p2alist"
    /\ \E a \in DMListAnswers :
          /\ pa' = [pa EXCEPT !.phase = "p2a", !.ci = 1,
                              !.channelsToProcess =
                                  IF a.err THEN <<>>
                                  ELSE IF opts.ExcludedDMChannelIDs # {}
                                       THEN SelectSeq(a.list, LAMBDA c : ~isDMExcluded(c))
                                  ELSE a.list]
          /\ pc' = IF a.err THEN "p2blist" ELSE "p2aloop"
          /\ obs' = Yielded(obs, Range(a.list))
    /\ UNCHANGED <<fixed, live, sw, hs, ds, rr, myReacts>>

\* lines 1280-1285
PurgeAll_NextOpenDM ==
    /\ pc = "p2aloop" /\ pa.ci <= Len(pa.channelsToProcess)
    /\ pa' = [pa EXCEPT !.processedDMs = @ \cup {pa.channelsToProcess[pa.ci]}]
    /\ WalkCall("dm", pa.channelsToProcess[pa.ci])
    /\ obs' = Walked(obs, pa.channelsToProcess[pa.ci])
    /\ UNCHANGED <<fixed, live, hs, ds, rr, myReacts>>

PurgeAll_OpenDMsEnd ==
    /\ pc = "p2aloop" /\ pa.ci > Len(pa.channelsToProcess)
    /\ pc' = "p2blist"
    /\ pa' = [pa EXCEPT !.channelsToProcess = <<>>, !.ci = 0]
    /\ UNCHANGED <<fixed, live, sw, hs, ds, obs, rr, myReacts>>

\* lines 1285-1297
PurgeAll_OpenDMDone ==
    /\ pc = "wret" /\ pa.phase = "p2a"
    /\ pa' = [CountDM(pa, sw.count) EXCEPT !.ci = @ + 1]
    /\ pc' = OnWalkError(sw.err, "p2aloop")
    /\ sw' = NoWalk
    /\ obs' = WalkedBack(obs)
    /\ UNCHANGED <<fixed, live, hs, ds, rr, myReacts>>

\* Phase 2b, lines 1307-1315: the relationships.
PurgeAll_GetRelationships ==
    /\ pc = "p2blist"
    /\ \E a \in RelationshipAnswers :
          /\ pa' = [pa EXCEPT !.phase = "p2b", !.ri = 1, !.rels = a.list]
          /\ pc' = IF a.err THEN "p2cload" ELSE "p2bloop"
    /\ UNCHANGED <<fixed, live, sw, hs, ds, obs, rr, myReacts>>

\* lines 1316-1346: the conversation of the next relationship is opened
\* and, unless processed already or excluded, walked.
PurgeAll_OpenDMChannel ==
    /\ pc = "p2bloop" /\ pa.ri <= Len(pa.rels)
    /\ \E a \in OpenDMAnswers(pa.rels[pa.ri]) :
          IF a.err
          THEN /\ pa' = [pa EXCEPT !.ri = @ + 1]
               /\ UNCHANGED <<pc, sw, obs>>
          ELSE IF AlreadyProcessed(a.ch) \/ isDMExcluded(a.ch)
          THEN /\ pa' = [pa EXCEPT !.ri = @ + 1]
               /\ obs' = Yielded(obs, {a.ch})
               /\ UNCHANGED <<pc, sw>>
          ELSE /\ pa' = [pa EXCEPT !.processedDMs = @ \cup {a.ch}]
               /\ WalkCall("dm", a.ch)
               /\ obs' = Yielded(Walked(obs, a.ch), {a.ch})
    /\ UNCHANGED <<fixed, live, hs, ds, rr, myReacts>>

PurgeAll_RelationshipsEnd ==
    /\ pc = "p2bloop" /\ pa.ri > Len(pa.rels)
    /\ pc' = "p2cload"
    /\ pa' = [pa EXCEPT !.rels = <<>>, !.ri = 0]
    /\ UNCHANGED <<fixed, live, sw, hs, ds, obs, rr, myReacts>>

\* lines 1346-1357
PurgeAll_HiddenDMDone ==
    /\ pc = "wret" /\ pa.phase = "p2b"
    /\ pa' = [CountDM(pa, sw.count) EXCEPT !.ri = @ + 1]
    /\ pc' = OnWalkError(sw.err, "p2bloop")
    /\ sw' = NoWalk
    /\ obs' = WalkedBack(obs)
    /\ UNCHANGED <<fixed, live, hs, ds, rr, myReacts>>

\* if dataPackagePath != "", line 1371.
MutPackageGiven(o) == TRUE
PackageGiven(o) == o.dataPackagePath

\* Phase 2c, lines 1371-1381: the channel IDs of the data package, when a
\* path was given.
PurgeAll_LoadDataPackage ==
    /\ pc = "p2cload"
    /\ IF ~PackageGiven(opts)
       THEN /\ pc' = "p3aloop"
            /\ pa' = [pa EXCEPT !.phase = "p3a", !.gi = 1]
            /\ UNCHANGED obs
       ELSE \E a \in PackageAnswers :
               /\ pa' = [pa EXCEPT !.phase = IF a.err THEN "p3a" ELSE "p2c",
                                   !.gi = 1, !.pkgLeft = a.ids]
               /\ pc' = IF a.err THEN "p3aloop" ELSE "p2cloop"
               /\ obs' = Yielded(obs, a.ids)
    /\ UNCHANGED <<fixed, live, sw, hs, ds, rr, myReacts>>

\* lines 1383-1396: the next channel ID of the package, in any order;
\* an excluded or processed one is passed over.
PurgeAll_NextPackageChannel ==
    /\ pc = "p2cloop" /\ pa.pkgLeft # {}
    /\ \E chID \in pa.pkgLeft :
          IF isDMExcluded(chID) \/ AlreadyProcessed(chID)
          THEN /\ pa' = [pa EXCEPT !.pkgLeft = @ \ {chID}]
               /\ UNCHANGED <<pc, sw, obs>>
          ELSE /\ pa' = [pa EXCEPT !.pkgLeft = @ \ {chID}, !.processedDMs = @ \cup {chID}]
               /\ WalkCall("dm", chID)
               /\ obs' = Walked(obs, chID)
    /\ UNCHANGED <<fixed, live, hs, ds, rr, myReacts>>

PurgeAll_PackageEnd ==
    /\ pc = "p2cloop" /\ pa.pkgLeft = {}
    /\ pc' = "p3aloop"
    /\ pa' = [pa EXCEPT !.phase = "p3a"]
    /\ UNCHANGED <<fixed, live, sw, hs, ds, obs, rr, myReacts>>

\* lines 1396-1409: an error of the walker is answered with the history scan.
PurgeAll_PackageDMDone ==
    /\ pc = "wret" /\ pa.phase = "p2c"
    /\ IF sw.err
       THEN /\ ScanCall(sw.target, "p2c")
            /\ UNCHANGED pa
       ELSE /\ pa' = CountDM(pa, sw.count)
            /\ pc' = "p2cloop"
            /\ UNCHANGED hs
    /\ sw' = NoWalk
    /\ obs' = WalkedBack(obs)
    /\ UNCHANGED <<fixed, live, ds, rr, myReacts>>

\* line 1398: count, _ = c.iterateAndDeleteChannel(chID)
PurgeAll_PackageFallbackDone ==
    /\ pc = "hret" /\ hs.ret = "p2c"
    /\ pa' = CountDM(pa, hs.count)
    /\ pc' = "p2cloop"
    /\ hs' = NoScan
    /\ obs' = [obs EXCEPT !.last = NoDelete]
    /\ UNCHANGED <<fixed, live, sw, ds, rr, myReacts>>

\* Phase 3a, lines 1430-1441: the channels and threads of the next guild.
PurgeAll_NextGuildSweep ==
    /\ pc = "p3aloop" /\ pa.gi <= Len(pa.guilds)
    /\ \E ids \in DiscoveryResults(pa.guilds[pa.gi]) :
          pa' = [pa EXCEPT !.channelIDs = ids, !.chi = 1, !.guildReactions = 0]
    /\ pc' = "p3achan"
    /\ UNCHANGED <<fixed, live, sw, hs, ds, obs, rr, myReacts>>

\* line 1443
PurgeAll_NextSweepChannel ==
    /\ pc = "p3achan" /\ pa.chi <= Len(pa.channelIDs)
    /\ SweepCall(pa.channelIDs[pa.chi], "p3a")
    /\ UNCHANGED <<fixed, live, sw, hs, ds, obs, pa, myReacts>>

\* lines 1443-1444
PurgeAll_GuildSweepDone ==
    /\ pc = "rret" /\ rr.ret = "p3a"
    /\ pa' = [pa EXCEPT !.guildReactions = @ + rr.count, !.chi = @ + 1]
    /\ pc' = "p3achan"
    /\ rr' = NoSweep
    /\ obs' = [obs EXCEPT !.react = NoReaction]
    /\ UNCHANGED <<fixed, live, sw, hs, ds, myReacts>>

\* lines 1451-1456: the first entry of serverStats with the guild's ID.
WithReactions(stats, g, n) ==
    LET hits == {k \in 1..Len(stats) : stats[k].GuildID = g}
    IN  IF hits = {} THEN stats
        ELSE LET k == CHOOSE x \in hits : \A y \in hits : x <= y
             IN  [stats EXCEPT ![k].Reactions = n]

\* lines 1451-1458: the guild's channels are swept.
PurgeAll_GuildSwept ==
    /\ pc = "p3achan" /\ pa.chi > Len(pa.channelIDs)
    /\ pa' = [pa EXCEPT !.serverStats = WithReactions(@, pa.guilds[pa.gi], pa.guildReactions),
                        !.totalReactionsRemoved = @ + pa.guildReactions,
                        !.gi = @ + 1, !.channelIDs = <<>>, !.chi = 0, !.guildReactions = 0]
    /\ pc' = "p3aloop"
    /\ obs' = [obs EXCEPT !.swept = @ \cup {pa.guilds[pa.gi]}]
    /\ UNCHANGED <<fixed, live, sw, hs, ds, rr, myReacts>>

\* Phase 3b, line 1470: for chID := range processedDMs
PurgeAll_GuildSweepsEnd ==
    /\ pc = "p3aloop" /\ pa.gi > Len(pa.guilds)
    /\ pa' = [pa EXCEPT !.phase = "p3b", !.sweepLeft = pa.processedDMs]
    /\ pc' = "p3bloop"
    /\ UNCHANGED <<fixed, live, sw, hs, ds, obs, rr, myReacts>>

\* line 1471: the next conversation of processedDMs, in any order.
PurgeAll_NextDMSweep ==
    /\ pc = "p3bloop" /\ pa.sweepLeft # {}
    /\ \E chID \in pa.sweepLeft :
          /\ pa' = [pa EXCEPT !.sweepLeft = @ \ {chID}]
          /\ SweepCall(chID, "p3b")
          /\ obs' = [obs EXCEPT !.sweeps[chID] = @ + 1]
    /\ UNCHANGED <<fixed, live, sw, hs, ds, myReacts>>

\* lines 1471-1472
PurgeAll_DMSweepDone ==
    /\ pc = "rret" /\ rr.ret = "p3b"
    /\ pa' = [pa EXCEPT !.dmReactionCount = @ + rr.count]
    /\ pc' = "p3bloop"
    /\ rr' = NoSweep
    /\ obs' = [obs EXCEPT !.react = NoReaction]
    /\ UNCHANGED <<fixed, live, sw, hs, ds, myReacts>>

\* lines 1477-1523: the statistics are returned.
PurgeAll_Return ==
    /\ pc = "p3bloop" /\ pa.sweepLeft = {}
    /\ pa' = [pa EXCEPT !.phase = "done", !.totalReactionsRemoved = @ + pa.dmReactionCount]
    /\ pc' = "done"
    /\ UNCHANGED <<fixed, live, sw, hs, ds, obs, rr, myReacts>>

(***************************************************************************)
(* One walk of one container                                               *)
(***************************************************************************)
NoObs == [last |-> NoDelete, sok |-> 0, ok |-> 0, react |-> NoReaction,
          walks |-> [c \in Containers |-> 0], sweeps |-> [c \in Containers |-> 0],
          swept |-> {}, yielded |-> {}, again |-> {}, failed |-> FALSE]
NoTwice == [walker |-> "", pass |-> 0, live1 |-> {}, count1 |-> 0, reacts1 |-> {},
            failed1 |-> FALSE]
NoOpts == [ExcludedGuildIDs |-> {}, ExcludedDMChannelIDs |-> {}, dataPackagePath |-> FALSE]

\* The container a single walk is run on: guild g1 with the channels c1 and
\* c2, or the conversation d1, holding the same four messages.
WalkTarget(kind) == IF kind = "guild" THEN "g1" ELSE "d1"
WalkMessages(kind) ==
    {Msg(<<1, 0>>, callerID, IF kind = "guild" THEN "c2" ELSE "d1"),
     Msg(<<9>>, callerID, IF kind = "guild" THEN "c1" ELSE "d1"),
     Msg(<<7>>, otherID, IF kind = "guild" THEN "c1" ELSE "d1"),
     Msg(<<5>>, callerID, IF kind = "guild" THEN "c1" ELSE "d1")}

\* No pure function is applied on its own.
NoCall == [done |-> FALSE, val |-> <<>>]
PureQuiet == fn = "" /\ arg = <<>> /\ res = NoCall

\* main is not run.
NoMain ==
    [at |-> "", exit |-> -1, confirm1 |-> "pending", confirm2 |-> "pending",
     guildErr |-> FALSE, selectionGuilds |-> <<>>, list |-> <<>>, i |-> 0,
     friendsRemoved |-> 0, serversLeft |-> 0, log |-> {}]

\* The channels of no guild are being discovered.  at is the position;
\* p, kind, allThreads, before, err are the parent, the listing and the locals
\* and result of the archive listing that runs; pages counts its requests.
\* asked, failed, yielded, got, last and sent are observations: the listings
\* queried, those that returned an error, the IDs of the listings that
\* returned without error, the IDs of every page received, the last page of
\* the running listing and the before values of its requests.
NoDiscovery ==
    [at |-> "", seen |-> {}, channelIDs |-> <<>>, parentChannelIDs |-> <<>>,
     p |-> 0, kind |-> "", allThreads |-> <<>>, before |-> "", err |-> FALSE,
     pages |-> 0,
     asked |-> {}, failed |-> {}, yielded |-> {}, got |-> {}, last |-> <<>>, sent |-> <<>>]

PureIdle == PureQuiet /\ mn = NoMain /\ dc = NoDiscovery

ReqQuiet ==
    /\ rq = "idle" /\ attempt = 0 /\ calls = 0 /\ slept = 0 /\ lastWait = Ms(0)
    /\ result = NoResult /\ n429 = 0 /\ after = Status(200)
    /\ method = "GET" /\ route = OtherRoute /\ reqValid = TRUE

ReqIdle == ReqQuiet /\ PureIdle

WalkQuiet ==
    /\ pc = "idle" /\ msgs = {} /\ live = {}
    /\ sw = NoWalk /\ hs = NoScan /\ ds = NoDeep /\ obs = NoObs
    /\ opts = NoOpts /\ pa = NoPurge /\ rr = NoSweep /\ myReacts = {}
    /\ srv = FreeService /\ tw = NoTwice

WalkIdle == WalkQuiet /\ PureIdle

vars == <<reqVars, walkVars>>

\* One logical request, on its own.
InitRequest == InitReq /\ WalkIdle

SpecReq == InitRequest /\ [][NextReq]_vars

InitWalk ==
    /\ ReqIdle
    /\ \E kind \in {"guild", "dm"} :
          /\ msgs = WalkMessages(kind)
          /\ sw = [NoWalk EXCEPT !.kind = kind, !.target = WalkTarget(kind)]
          /\ pc = IF kind = "guild" THEN "gsearch" ELSE "dsearch"
    /\ live \in {IdsOf(msgs), IdsOf(msgs) \ {<<5>>}}
    /\ hs = NoScan /\ ds = NoDeep /\ obs = NoObs
    /\ opts = NoOpts /\ pa = NoPurge /\ rr = NoSweep /\ myReacts = {}
    /\ srv = FreeService /\ tw = NoTwice

NextWalk ==
    \/ SearchGuildMessages_Search
    \/ SearchGuildMessages_Skip
    \/ SearchGuildMessages_Delete
    \/ SearchGuildMessages_PageEnd
    \/ SearchGuildMessages_Return
    \/ deepScanGuildMessages_Discover
    \/ deepScanGuildMessages_Next
    \/ SearchDMMessages_Search
    \/ SearchDMMessages_Skip
    \/ SearchDMMessages_Delete
    \/ SearchDMMessages_PageEnd
    \/ SearchDMMessages_FallbackReturn
    \/ iterateAndDeleteChannel_Fetch
    \/ iterateAndDeleteChannel_Skip
    \/ iterateAndDeleteChannel_Delete

SpecWalk == InitWalk /\ [][NextWalk]_vars

\* A container whose oldest message of the caller has the ID 0, the one ID
\* that previousSnowflakeID leaves as it is; the conversation also holds a
\* message of the other party.
PageMessages(kind) ==
    IF kind = "guild"
    THEN {Msg(<<1, 0>>, callerID, "c2"), Msg(<<9>>, callerID, "c1"), Msg(<<0>>, callerID, "c1")}
    ELSE {Msg(<<9>>, callerID, "d1"), Msg(<<3>>, otherID, "d1"), Msg(<<0>>, callerID, "d1")}

InitPage ==
    /\ ReqIdle
    /\ \E kind \in {"guild", "dm"} :
          /\ msgs = PageMessages(kind)
          /\ sw = [NoWalk EXCEPT !.kind = kind, !.target = WalkTarget(kind)]
          /\ pc = IF kind = "guild" THEN "gsearch" ELSE "dsearch"
    /\ live = IdsOf(msgs)
    /\ hs = NoScan /\ ds = NoDeep /\ obs = NoObs
    /\ opts = NoOpts /\ pa = NoPurge /\ rr = NoSweep /\ myReacts = {}
    /\ srv = FreeService /\ tw = NoTwice

\* The walker runs on: each loop of a walker is a for loop of one goroutine
\* whose sleeps are finite, so a walker that can take a step takes one.
SpecWalkFair == InitWalk /\ [][NextWalk]_vars /\ WF_vars(NextWalk)
SpecPage == InitPage /\ [][NextWalk]_vars /\ WF_vars(NextWalk)

(***************************************************************************)
(* One walker run twice on one container of the deterministic service      *)
(***************************************************************************)
Walkers == {"SearchGuildMessages", "SearchDMMessages", "iterateAndDeleteChannel"}
KindOf(walker) == IF walker = "SearchGuildMessages" THEN "guild" ELSE "dm"

\* The walker of the harness has returned to the harness.
Returned == pc = "wret" \/ (pc = "hret" /\ hs.ret = "top")
ReturnedCount == IF pc = "wret" THEN sw.count ELSE hs.count

InitTwice ==
    /\ ReqIdle
    /\ \E walker \in Walkers :
          /\ tw = [NoTwice EXCEPT !.walker = walker, !.pass = 1]
          /\ msgs = WalkMessages(KindOf(walker))
          /\ srv \in [det : {TRUE}, indexed : SUBSET IdsOf(msgs), stale : BOOLEAN,
                       refuses : {{}, {<<5>>}},
                       nosearch : {{}, {WalkTarget(KindOf(walker))}},
                       nohistory : {{}}]
          /\ IF walker = "iterateAndDeleteChannel"
             THEN /\ sw = NoWalk
                  /\ hs = [NoScan EXCEPT !.ch = WalkTarget("dm"), !.ret = "top"]
                  /\ pc = "hfetch"
             ELSE /\ sw = [NoWalk EXCEPT !.kind = KindOf(walker),
                                         !.target = WalkTarget(KindOf(walker))]
                  /\ hs = NoScan
                  /\ pc = IF walker = "SearchGuildMessages" THEN "gsearch" ELSE "dsearch"
    /\ live = IdsOf(msgs)
    /\ ds = NoDeep /\ obs = NoObs
    /\ opts = NoOpts /\ pa = NoPurge /\ rr = NoSweep /\ myReacts = {}

\* The walker has completed its first pass; it is called again at once on
\* the same container.
Twice_Again ==
    /\ tw.pass = 1 /\ Returned
    /\ tw' = [tw EXCEPT !.pass = 2, !.live1 = live, !.count1 = ReturnedCount]
    /\ IF tw.walker = "iterateAndDeleteChannel"
       THEN ScanCall(hs.ch, "top") /\ UNCHANGED sw
       ELSE WalkCall(sw.kind, sw.target) /\ hs' = NoScan
    /\ obs' = NoObs
    /\ UNCHANGED <<msgs, opts, srv, reqVars, apart, live, ds, pa, rr, myReacts>>

NextTwice ==
    \/ Twice_Again
    \/ NextWalk

SpecTwice == InitTwice /\ [][NextTwice]_vars

(***************************************************************************)
(* One run of PurgeAll                                                     *)
(***************************************************************************)
\* The caller has a message in guild g1 and in the conversation d1, and a
\* reaction on a message of another user in each of them; guild g2 and the
\* conversation d2 hold nothing of the caller.
PurgeMessages ==
    {Msg(<<9>>, callerID, "c1"), Msg(<<8>>, otherID, "c1"),
     Msg(<<6>>, callerID, "d1"), Msg(<<4>>, otherID, "d1")}
PurgeReactions == {<<<<8>>, Pepe>>, <<<<4>>, ThumbsUp>>}

\* The choices of promptPurgeOptions and of the -data-package flag.
PurgeInputs ==
    [ExcludedGuildIDs : {{}, {"g1"}}, ExcludedDMChannelIDs : {{}, {"d1"}},
     dataPackagePath : BOOLEAN]

Init ==
    /\ ReqIdle
    /\ msgs = PurgeMessages /\ live = IdsOf(PurgeMessages) /\ myReacts = PurgeReactions
    /\ opts \in PurgeInputs
    /\ pc = "p1list" /\ pa = [NoPurge EXCEPT !.phase = "p1"]
    /\ sw = NoWalk /\ hs = NoScan /\ ds = NoDeep /\ rr = NoSweep /\ obs = NoObs
    /\ srv = FreeService /\ tw = NoTwice

Next ==
    \/ PurgeAll_GetAllGuilds
    \/ PurgeAll_NextGuild
    \/ PurgeAll_GuildsEnd
    \/ PurgeAll_GuildDone
    \/ PurgeAll_GetDMChannels
    \/ PurgeAll_NextOpenDM
    \/ PurgeAll_OpenDMsEnd
    \/ PurgeAll_OpenDMDone
    \/ PurgeAll_GetRelationships
    \/ PurgeAll_OpenDMChannel
    \/ PurgeAll_RelationshipsEnd
    \/ PurgeAll_HiddenDMDone
    \/ PurgeAll_LoadDataPackage
    \/ PurgeAll_NextPackageChannel
    \/ PurgeAll_PackageEnd
    \/ PurgeAll_PackageDMDone
    \/ PurgeAll_PackageFallbackDone
    \/ PurgeAll_NextGuildSweep
    \/ PurgeAll_NextSweepChannel
    \/ PurgeAll_GuildSweepDone
    \/ PurgeAll_GuildSwept
    \/ PurgeAll_GuildSweepsEnd
    \/ PurgeAll_NextDMSweep
    \/ PurgeAll_DMSweepDone
    \/ PurgeAll_Return
    \/ removeReactionsFromChannel_Fetch
    \/ removeReactionsFromChannel_Remove
    \/ NextWalk

Spec == Init /\ [][Next]_vars

(***************************************************************************)
(* PurgeAll interrupted and restarted, on the deterministic service        *)
(***************************************************************************)
\* The run of reference is a complete run (pass 1).  The remote state is
\* then put back, and a second run (pass 2) is interrupted at any point: the
\* process ends, its locals are lost, the remote state stays.  A complete
\* run follows (pass 3).
RestartMessages == PurgeMessages \cup {Msg(<<3>>, callerID, "c2"), Msg(<<2>>, callerID, "c1")}

\* The caller's reactions that a sweep can still find.
ReactionsLeft == {x \in myReacts : x[1] \in live}

\* A fresh process: the locals of main and PurgeAll at the call of PurgeAll.
FreshRun ==
    /\ pc' = "p1list" /\ pa' = [NoPurge EXCEPT !.phase = "p1"]
    /\ sw' = NoWalk /\ hs' = NoScan /\ ds' = NoDeep /\ rr' = NoSweep /\ obs' = NoObs

InitRestart ==
    /\ ReqIdle
    /\ msgs = RestartMessages /\ live = IdsOf(RestartMessages) /\ myReacts = PurgeReactions
    /\ opts = [NoOpts EXCEPT !.dataPackagePath = TRUE]
    /\ srv \in [det : {TRUE}, indexed : SUBSET IdsOf(RestartMessages), stale : BOOLEAN,
                 refuses : {{}, {<<9>>}}, nosearch : {{}, {"c1"}, {"d1"}},
                 nohistory : {{}, {"c1"}}]
    /\ tw = [NoTwice EXCEPT !.walker = "PurgeAll", !.pass = 1]
    /\ pc = "p1list" /\ pa = [NoPurge EXCEPT !.phase = "p1"]
    /\ sw = NoWalk /\ hs = NoScan /\ ds = NoDeep /\ rr = NoSweep /\ obs = NoObs

\* The run of reference is over: what it left is kept, the remote state is
\* put back, and the run to be interrupted starts.
Restart_Rewind ==
    /\ tw.pass = 1 /\ pc = "done"
    /\ tw' = [tw EXCEPT !.pass = 2, !.live1 = live, !.reacts1 = ReactionsLeft,
                        !.failed1 = obs.failed]
    /\ live' = IdsOf(msgs) /\ myReacts' = PurgeReactions
    /\ FreshRun
    /\ UNCHANGED <<msgs, opts, srv, reqVars, apart>>

\* count1 keeps how many messages were gone at the interruption.
\* The run is interrupted (main, lines 1877-1882, runs PurgeAll once and
\* keeps nothing between processes) and a new process runs PurgeAll.
Restart_Interrupt ==
    /\ tw.pass = 2 /\ pc # "done"
    /\ tw' = [tw EXCEPT !.pass = 3, !.count1 = Cardinality(IdsOf(msgs) \ live)]
    /\ FreshRun
    /\ UNCHANGED <<msgs, opts, srv, reqVars, apart, live, myReacts>>

NextRestart ==
    \/ Restart_Rewind
    \/ Restart_Interrupt
    \/ Next

SpecRestart == InitRestart /\ [][NextRestart]_vars

(***************************************************************************)
(* One reaction sweep of one channel                                       *)
(***************************************************************************)
\* The channel c1 holds messages of the caller and of another user; the
\* caller may have reacted to any of them, next to the reactions of others.
SweepMessages ==
    {Msg(<<9>>, callerID, "c1"), Msg(<<8>>, otherID, "c1"),
     Msg(<<7>>, otherID, "c1"), Msg(<<5>>, callerID, "c1")}

SweepReactions ==
    {<<<<9>>, ThumbsUp>>, <<<<8>>, ThumbsUp>>, <<<<8>>, Pepe>>, <<<<7>>, Pepe>>,
     <<<<5>>, ThumbsUp>>}

InitSweep ==
    /\ ReqIdle
    /\ msgs = SweepMessages /\ live = IdsOf(SweepMessages)
    /\ myReacts \in SUBSET SweepReactions
    /\ rr = [NoSweep EXCEPT !.ch = "c1", !.ret = "sweep"] /\ pc = "rfetch"
    /\ sw = NoWalk /\ hs = NoScan /\ ds = NoDeep /\ obs = NoObs
    /\ opts = NoOpts /\ pa = NoPurge /\ srv = FreeService /\ tw = NoTwice

NextSweep ==
    \/ removeReactionsFromChannel_Fetch
    \/ removeReactionsFromChannel_Remove

SpecSweep == InitSweep /\ [][NextSweep]_vars

(***************************************************************************)
(* The two loops over the history of one channel                           *)
(***************************************************************************)
\* The conversation d1 holds some of five messages; iterateAndDeleteChannel
\* or removeReactionsFromChannel is called on it.
HistoryMessages ==
    {Msg(<<9>>, callerID, "d1"), Msg(<<8>>, otherID, "d1"), Msg(<<7>>, callerID, "d1"),
     Msg(<<5>>, otherID, "d1"), Msg(<<4>>, callerID, "d1")}

HistoryReactions == {<<<<9>>, ThumbsUp>>, <<<<5>>, Pepe>>, <<<<4>>, ThumbsUp>>}

InitHistory ==
    /\ ReqIdle
    /\ msgs = HistoryMessages /\ live \in SUBSET IdsOf(HistoryMessages)
    /\ myReacts \in {{}, HistoryReactions}
    /\ \E loop \in {"iterateAndDeleteChannel", "removeReactionsFromChannel"} :
          IF loop = "iterateAndDeleteChannel"
          THEN /\ hs = [NoScan EXCEPT !.ch = "d1", !.ret = "top"]
               /\ rr = NoSweep /\ pc = "hfetch"
          ELSE /\ rr = [NoSweep EXCEPT !.ch = "d1", !.ret = "sweep"]
               /\ hs = NoScan /\ pc = "rfetch"
    /\ sw = NoWalk /\ ds = NoDeep /\ obs = NoObs
    /\ opts = NoOpts /\ pa = NoPurge /\ srv = FreeService /\ tw = NoTwice

NextHistory ==
    \/ iterateAndDeleteChannel_Fetch
    \/ iterateAndDeleteChannel_Skip
    \/ iterateAndDeleteChannel_Delete
    \/ removeReactionsFromChannel_Fetch
    \/ removeReactionsFromChannel_Remove

\* The steps of iterateAndDeleteChannel.
NextScan ==
    \/ iterateAndDeleteChannel_Fetch
    \/ iterateAndDeleteChannel_Skip
    \/ iterateAndDeleteChannel_Delete

\* The deleter is a for loop of one goroutine with finite sleeps: when it
\* can take a step it takes one.
SpecHistory == InitHistory /\ [][NextHistory]_vars /\ WF_vars(NextScan)

(***************************************************************************)
(* main: the confirmations, PurgeAll, the cleanup                          *)
(***************************************************************************)
\* What the walkers and PurgeAll leave alone, mn apart.
mainFixed == <<msgs, srv, tw, reqVars, pureVars, dc>>

\* os.Exit(code), or the return of main (code 0).
Exit(m, code) == [m EXCEPT !.at = "exit", !.exit = code]

\* To GET /users/@me.
AuthAnswers == {NetErr, Ans(401, ""), Ans(500, ""), Ans(200, "garbled"), Ans(200, "user")}

\* The answers to the two questions, trimmed and in lower case.
Responses == {"yes", "y", "no", ""}

\* lines 1961-1978 and 1990-2000: response == "yes" || response == "y"
MutConfirmed(response) == TRUE
Confirmed(response) == response \in {"yes", "y"}

RelationshipFriend == 1
RelationshipBlocked == 2
\* rel.Type of the relationship with a user.
RelationshipType(u) == IF u = "u1" THEN RelationshipFriend ELSE RelationshipBlocked

\* To DELETE /users/@me/relationships/{id} and DELETE /users/@me/guilds/{id}.
CleanupAnswers == {NetErr} \cup {Ans(x, "") : x \in {204, 403, 404}}

\* A request main issues itself, outside PurgeAll.
Request(verb, what, id) == [verb |-> verb, what |-> what, id |-> id]

\* lines 1797-1824: the flag --data-package and the token.
main_Start ==
    /\ mn.at = "args"
    /\ \E a \in {"none", "path", "no path"}, token \in {"", "token"} :
          IF a = "no path" \/ token = ""
          THEN mn' = Exit(mn, 1) /\ UNCHANGED opts
          ELSE /\ mn' = [mn EXCEPT !.at = "auth"]
               /\ opts' = [opts EXCEPT !.dataPackagePath = (a = "path")]
    /\ UNCHANGED <<mainFixed, pc, live, sw, hs, ds, obs, pa, rr, myReacts>>

\* lines 1827-1838 and Authenticate, lines 299-320.
main_Authenticate ==
    /\ mn.at = "auth"
    /\ \E a \in AuthAnswers :
          mn' = IF a.neterr \/ a.status # 200 \/ a.body = "garbled"
                THEN Exit(mn, 1)
                ELSE [mn EXCEPT !.at = "guilds"]
    /\ UNCHANGED <<mainFixed, pc, live, sw, hs, ds, obs, pa, rr, myReacts, opts>>

\* lines 1849-1855: the guilds to choose exclusions from.
main_GetAllGuilds ==
    /\ mn.at = "guilds"
    /\ \E a \in GuildListAnswers \cup {Failed} :
          mn' = [mn EXCEPT !.at = "dms", !.guildErr = a.err,
                           !.selectionGuilds = IF a.err THEN <<>> ELSE a.list]
    /\ UNCHANGED <<mainFixed, pc, live, sw, hs, ds, obs, pa, rr, myReacts, opts>>

\* lines 1857-1869 and promptPurgeOptions, lines 1711-1788: the open
\* conversations, and the exclusions the user picks from the two lists.
main_GetDMChannels ==
    /\ mn.at = "dms"
    /\ \E a \in DMListAnswers \cup {Failed} :
          /\ mn' = [mn EXCEPT !.at = "confirm1"]
          /\ IF ~mn.guildErr \/ ~a.err
             THEN \E G \in SUBSET Range(mn.selectionGuilds),
                     D \in SUBSET (IF a.err THEN {} ELSE Range(a.list)) :
                     opts' = [opts EXCEPT !.ExcludedGuildIDs = G,
                                          !.ExcludedDMChannelIDs = D]
             ELSE UNCHANGED opts
    /\ UNCHANGED <<mainFixed, pc, live, sw, hs, ds, obs, pa, rr, myReacts>>

\* lines 1872-1882: the first question; a yes calls PurgeAll.
main_confirmDeletion ==
    /\ mn.at = "confirm1"
    /\ \E response \in Responses :
          IF Confirmed(response)
          THEN /\ mn' = [mn EXCEPT !.at = "purge", !.confirm1 = response]
               /\ pc' = "p1list"
               /\ pa' = [NoPurge EXCEPT !.phase = "p1"]
          ELSE /\ mn' = [Exit(mn, 0) EXCEPT !.confirm1 = response]
               /\ UNCHANGED <<pc, pa>>
    /\ UNCHANGED <<mainFixed, live, sw, hs, ds, obs, rr, myReacts, opts>>

\* lines 1884-1886 and 1922-1925: PurgeAll has returned; the second question.
main_confirmCleanup ==
    /\ mn.at = "purge" /\ pc = "done"
    /\ \E response \in Responses :
          mn' = IF Confirmed(response)
                THEN [mn EXCEPT !.at = "friends", !.confirm2 = response]
                ELSE [Exit(mn, 0) EXCEPT !.confirm2 = response]
    /\ UNCHANGED <<mainFixed, pc, live, sw, hs, ds, obs, pa, rr, myReacts, opts>>

\* RemoveAllFriends, lines 1556-1559
RemoveAllFriends_GetRelationships ==
    /\ mn.at = "friends"
    /\ \E a \in RelationshipAnswers \cup {Failed} :
          mn' = IF a.err THEN [mn EXCEPT !.at = "leave"]
                ELSE [mn EXCEPT !.at = "unfriend", !.list = a.list, !.i = 1]
    /\ UNCHANGED <<mainFixed, pc, live, sw, hs, ds, obs, pa, rr, myReacts, opts>>

\* RemoveAllFriends, lines 1561-1575, and RemoveFriend, lines 1531-1540: the
\* next relationship, or the return.
RemoveAllFriends_Next ==
    /\ mn.at = "unfriend"
    /\ IF mn.i > Len(mn.list)
       THEN mn' = [mn EXCEPT !.at = "leave", !.list = <<>>, !.i = 0]
       ELSE IF RelationshipType(mn.list[mn.i]) # RelationshipFriend
       THEN mn' = [mn EXCEPT !.i = @ + 1]
       ELSE \E ans \in CleanupAnswers :
               mn' = [mn EXCEPT !.i = @ + 1,
                         !.log = @ \cup {Request("DELETE", "relationship", mn.list[mn.i])},
                         !.friendsRemoved =
                             IF ~ans.neterr /\ ans.status \in {204, 200} THEN @ + 1 ELSE @]
    /\ UNCHANGED <<mainFixed, pc, live, sw, hs, ds, obs, pa, rr, myReacts, opts>>

\* LeaveAllGuilds, lines 1580-1583
LeaveAllGuilds_GetAllGuilds ==
    /\ mn.at = "leave"
    /\ \E a \in GuildListAnswers \cup {Failed} :
          mn' = IF a.err THEN Exit(mn, 0)
                ELSE [mn EXCEPT !.at = "leaving", !.list = a.list, !.i = 1]
    /\ UNCHANGED <<mainFixed, pc, live, sw, hs, ds, obs, pa, rr, myReacts, opts>>

\* LeaveAllGuilds, lines 1585-1602, and LeaveGuild, lines 1543-1552: the next
\* guild, or the return and the end of main.
LeaveAllGuilds_Next ==
    /\ mn.at = "leaving"
    /\ IF mn.i > Len(mn.list)
       THEN mn' = Exit([mn EXCEPT !.list = <<>>, !.i = 0], 0)
       ELSE \E ans \in CleanupAnswers :
               mn' = [mn EXCEPT !.i = @ + 1,
                         !.log = @ \cup {Request("DELETE", "guild", mn.list[mn.i])},
                         !.serversLeft =
                             IF ~ans.neterr /\ ans.status \in {204, 200} THEN @ + 1 ELSE @]
    /\ UNCHANGED <<mainFixed, pc, live, sw, hs, ds, obs, pa, rr, myReacts, opts>>

InitMain ==
    /\ ReqQuiet /\ PureQuiet /\ dc = NoDiscovery
    /\ mn = [NoMain EXCEPT !.at = "args"]
    /\ msgs = PurgeMessages /\ live = IdsOf(PurgeMessages) /\ myReacts = PurgeReactions
    /\ opts = NoOpts
    /\ pc = "idle" /\ pa = NoPurge
    /\ sw = NoWalk /\ hs = NoScan /\ ds = NoDeep /\ rr = NoSweep /\ obs = NoObs
    /\ srv \in [det : {TRUE}, indexed : {{}, {<<9>>, <<8>>, <<6>>}}, stale : {FALSE},
                 refuses : {{}}, nosearch : {{}, {"c1"}}, nohistory : {{}, {"c1"}}]
    /\ tw = NoTwice

NextMain ==
    \/ main_Start
    \/ main_Authenticate
    \/ main_GetAllGuilds
    \/ main_GetDMChannels
    \/ main_confirmDeletion
    \/ main_confirmCleanup
    \/ RemoveAllFriends_GetRelationships
    \/ RemoveAllFriends_Next
    \/ LeaveAllGuilds_GetAllGuilds
    \/ LeaveAllGuilds_Next
    \/ Next

SpecMain == InitMain /\ [][NextMain]_vars

(***************************************************************************)
(* The cursor functions applied to any two cursors                         *)
(***************************************************************************)
\* Bound: the longest cursor.
MaxCursorLen == 3

\* The characters of a cursor: digits, and one character that is no digit.
CursorChars == {0, 1, 9, NonDigit}

Cursors == UNION {[1..k -> CursorChars] : k \in 0..MaxCursorLen}

InitCursor ==
    /\ ReqQuiet /\ WalkQuiet /\ mn = NoMain /\ dc = NoDiscovery
    /\ \/ fn = "olderSnowflakeID" /\ arg \in Cursors \X Cursors
       \/ fn = "previousSnowflakeID" /\ arg \in {<<x>> : x \in Cursors}
    /\ res = NoCall

Call_olderSnowflakeID ==
    /\ fn = "olderSnowflakeID" /\ ~res.done
    /\ res' = [done |-> TRUE, val |-> olderSnowflakeID(arg[1], arg[2])]
    /\ UNCHANGED <<fn, arg, mn, dc, reqVars, pc, msgs, live, sw, hs, ds, obs, opts, pa, rr, myReacts, srv, tw>>

Call_previousSnowflakeID ==
    /\ fn = "previousSnowflakeID" /\ ~res.done
    /\ res' = [done |-> TRUE, val |-> previousSnowflakeID(arg[1])]
    /\ UNCHANGED <<fn, arg, mn, dc, reqVars, pc, msgs, live, sw, hs, ds, obs, opts, pa, rr, myReacts, srv, tw>>

NextCursor ==
    \/ Call_olderSnowflakeID
    \/ Call_previousSnowflakeID

SpecCursor == InitCursor /\ [][NextCursor]_vars

(***************************************************************************)
(* The oldest hit of a page, for any three hits in any order               *)
(***************************************************************************)
\* oldestHitID := "" and oldestHitID = olderSnowflakeID(oldestHitID, msg.ID)
\* for every hit of the caller in the order of the page, lines 746-752.
RECURSIVE oldestHitID(_)
oldestHitID(hits) ==
    IF hits = <<>> THEN <<>>
    ELSE olderSnowflakeID(oldestHitID(SubSeq(hits, 1, Len(hits) - 1)), hits[Len(hits)])

\* The IDs of the hits: strings of 0, 1 and a non-digit that are not empty.
HitIDs == UNION {[1..k -> {0, 1, NonDigit}] : k \in 1..MaxCursorLen}

InitFold ==
    /\ ReqQuiet /\ WalkQuiet /\ mn = NoMain /\ dc = NoDiscovery
    /\ fn = "oldestHitID" /\ arg \in HitIDs \X HitIDs \X HitIDs
    /\ res = NoCall

Call_oldestHitID ==
    /\ fn = "oldestHitID" /\ ~res.done
    /\ res' = [done |-> TRUE, val |-> oldestHitID(arg)]
    /\ UNCHANGED <<fn, arg, mn, dc, reqVars, pc, msgs, live, sw, hs, ds, obs, opts, pa, rr, myReacts, srv, tw>>

NextFold ==
    \/ Call_oldestHitID

SpecFold == InitFold /\ [][NextFold]_vars

(***************************************************************************)
(* formatEmojiForURL applied to any emoji                                  *)
(***************************************************************************)
\* Bound: the longest emoji name, in bytes.
MaxNameLen == 4

\* The bytes of a name: p e / : % and the four bytes of U+1F44D in UTF-8.
NameBytes == {112, 101, 47, Colon, Percent, 240, 159, 145, 141}

Names == UNION {[1..k -> NameBytes] : k \in 0..MaxNameLen}

\* The ID of an emoji: nil, empty, or a number.
EmojiIDs == {<<TRUE, <<>>>>, <<FALSE, <<>>>>, <<FALSE, <<53>>>>, <<FALSE, <<53, 53, 53>>>>}

InitEmoji ==
    /\ ReqQuiet /\ WalkQuiet /\ mn = NoMain /\ dc = NoDiscovery
    /\ fn = "formatEmojiForURL"
    /\ arg \in {<<EmojiInfo(i[1], i[2], n)>> : i \in EmojiIDs, n \in Names}
    /\ res = NoCall

Call_formatEmojiForURL ==
    /\ fn = "formatEmojiForURL" /\ ~res.done
    /\ res' = [done |-> TRUE, val |-> formatEmojiForURL(arg[1])]
    /\ UNCHANGED <<fn, arg, mn, dc, reqVars, pc, msgs, live, sw, hs, ds, obs, opts, pa, rr, myReacts, srv, tw>>

NextEmoji ==
    \/ Call_formatEmojiForURL

SpecEmoji == InitEmoji /\ [][NextEmoji]_vars

(***************************************************************************)
(* The wait of requestWithBody after a 429, for any headers and body       *)
(***************************************************************************)
InitWait ==
    /\ ReqQuiet /\ WalkQuiet /\ mn = NoMain /\ dc = NoDiscovery
    /\ fn = "waitTime"
    /\ arg \in HeaderValues \X HeaderValues \X BodyValues \X Methods \X Routes
    /\ res = NoCall

Call_waitTime ==
    /\ fn = "waitTime" /\ ~res.done
    /\ res' = [done |-> TRUE,
               val |-> [waitTime |-> WaitTime(arg[1], arg[2], arg[3], arg[4], arg[5]),
                        slept |-> Sleep(WaitTime(arg[1], arg[2], arg[3], arg[4], arg[5]))]]
    /\ UNCHANGED <<fn, arg, mn, dc, reqVars, pc, msgs, live, sw, hs, ds, obs, opts, pa, rr, myReacts, srv, tw>>

NextWait ==
    \/ Call_waitTime

SpecWait == InitWait /\ [][NextWait]_vars

(***************************************************************************)
(* discoverAllGuildChannelsAndThreads and the thread listings it queries   *)
(***************************************************************************)
\* Bound: the most pages the service gives to one archive listing.
MaxArchivePages == 2

\* A Channel of a listing: its ID and Type, and for a thread its
\* ThreadMetadata (nil, or holding an ArchiveTimestamp).
Chan(id, type) == [ID |-> id, Type |-> type]
NilMetadata == [nil |-> TRUE, ArchiveTimestamp |-> ""]
Metadata(ts) == [nil |-> FALSE, ArchiveTimestamp |-> ts]
Thread(id, md) == [ID |-> id, ThreadMetadata |-> md]

\* The channel lists a guild may have.
GuildChannelLists ==
    {<<Chan("c1", "GuildText"), Chan("v1", "GuildVoice"), Chan("k1", "GuildCategory"),
       Chan("t1", "GuildPublicThread")>>,
     <<Chan("f1", "GuildForum"), Chan("c1", "GuildNews")>>}

ActiveThreadLists == {<<>>, <<Thread("t1", NilMetadata)>>, <<Thread("t2", NilMetadata), Thread("t1", NilMetadata)>>}

\* The pages of an archive listing.
ArchivePages ==
    {<<>>,
     <<Thread("t1", Metadata("T1"))>>,
     <<Thread("t1", Metadata("T1")), Thread("t2", Metadata("T2"))>>,
     <<Thread("t2", Metadata(""))>>,
     <<Thread("t2", NilMetadata)>>,
     <<Thread("t2", Metadata("T2")), Thread("t2", Metadata("T2"))>>}

\* What c.request returns for a listing: a transport failure, a status that
\* is not 200, a body that does not parse, or a list with has_more.
ListFailures ==
    {[neterr |-> TRUE, status |-> 0, parses |-> FALSE, list |-> <<>>, has_more |-> FALSE]}
        \cup {[neterr |-> FALSE, status |-> st, parses |-> FALSE, list |-> <<>>, has_more |-> FALSE] :
                st \in {400, 403, 404, 500}}
        \cup {[neterr |-> FALSE, status |-> 200, parses |-> FALSE, list |-> <<>>, has_more |-> FALSE]}
Lists(lists, more) ==
    {[neterr |-> FALSE, status |-> 200, parses |-> TRUE, list |-> l, has_more |-> m] :
        l \in lists, m \in more}

IDsOf(list) == [i \in 1..Len(list) |-> list[i].ID]

\* The closure addChannel, lines 571-576.
MutAddChannel(d, id) == [d EXCEPT !.seen = @ \cup {id}, !.channelIDs = Append(@, id)]
addChannel(d, id) ==
    IF id \in d.seen THEN d
    ELSE [d EXCEPT !.seen = @ \cup {id}, !.channelIDs = Append(@, id)]

RECURSIVE addChannels(_, _)
addChannels(d, ids) ==
    IF ids = <<>> THEN d ELSE addChannels(addChannel(d, Head(ids)), Tail(ids))

\* The switch on ch.Type, lines 587-599.
IsParent(ch) == ch.Type \in {"GuildText", "GuildNews", "GuildForum", "GuildMedia"}
IsAdded(ch) ==
    ch.Type \in {"GuildText", "GuildNews", "GuildVoice", "GuildStageVoice",
                 "GuildNewsThread", "GuildPublicThread", "GuildPrivateThread"}

\* GetGuildChannels and GetActiveGuildThreads: 403 is no access and no error.
ListFails(ans) == ans.neterr \/ ans.status \notin {200, 403} \/ (ans.status = 200 /\ ~ans.parses)

\* The archive listing that runs is started for a parent and a kind.
StartListing(d, p, kind) ==
    [d EXCEPT !.at = "listing", !.p = p, !.kind = kind, !.allThreads = <<>>,
              !.before = "", !.err = FALSE, !.pages = 0, !.last = <<>>, !.sent = <<>>]

discoverFixed == <<reqVars, pc, msgs, live, sw, hs, ds, obs, opts, pa, rr, myReacts, srv, tw, pureVars, mn>>

\* Lines 578-600: the channel list of the guild; an error ends the discovery.
MutChannelListEnds(ans) == FALSE
ChannelListEnds(ans) == ListFails(ans)

discoverAllGuildChannelsAndThreads_GetGuildChannels ==
    /\ dc.at = "channels"
    /\ \E ans \in ListFailures \cup Lists(GuildChannelLists, {FALSE}) :
          LET channels == IF ListFails(ans) \/ ans.status = 403 THEN <<>> ELSE ans.list
              added == SelectSeq(channels, IsAdded)
              d1 == addChannels(dc, IDsOf(added))
          IN  dc' = IF ChannelListEnds(ans)
                    THEN [dc EXCEPT !.at = "done", !.asked = @ \cup {<<"channels", "">>},
                                    !.failed = @ \cup {<<"channels", "">>}]
                    ELSE [d1 EXCEPT !.at = "active",
                                    !.failed = IF ListFails(ans) THEN @ \cup {<<"channels", "">>} ELSE @,
                                    !.parentChannelIDs = IDsOf(SelectSeq(channels, IsParent)),
                                    !.asked = @ \cup {<<"channels", "">>},
                                    !.yielded = @ \cup Range(IDsOf(added))]
    /\ UNCHANGED discoverFixed

\* Lines 602-608, and the entry of the loop over the parents, line 611.
discoverAllGuildChannelsAndThreads_GetActiveGuildThreads ==
    /\ dc.at = "active"
    /\ \E ans \in ListFailures \cup Lists(ActiveThreadLists, {FALSE}) :
          LET threads == IF ListFails(ans) \/ ans.status = 403 THEN <<>> ELSE IDsOf(ans.list)
              d1 == [addChannels(dc, threads) EXCEPT
                        !.asked = @ \cup {<<"active", "">>},
                        !.failed = IF ListFails(ans) THEN @ \cup {<<"active", "">>} ELSE @,
                        !.yielded = @ \cup Range(threads)]
          IN  dc' = IF dc.parentChannelIDs = <<>>
                    THEN [d1 EXCEPT !.at = "done"]
                    ELSE StartListing(d1, 1, "public")
    /\ UNCHANGED discoverFixed

\* The statuses on which a listing breaks and returns what it has, lines
\* 532 and 487.
Breaks(kind, status) ==
    IF kind = "joined" THEN status \in {403, 400, 404} ELSE status \in {403, 400}

\* Lines 550-555 and 505-510: whether the last thread of a page gives the
\* next before.
MutGivesBefore(kind, lastThread) ==
    ~lastThread.ThreadMetadata.nil /\ lastThread.ThreadMetadata.ArchiveTimestamp # ""
GivesBefore(kind, lastThread) ==
    /\ ~lastThread.ThreadMetadata.nil
    /\ kind = "joined" => lastThread.ThreadMetadata.ArchiveTimestamp # ""

\* One pass of the loop of an archive listing: lines 522-556 and 477-511.
ArchiveRequest(ans) ==
    LET d0 == [dc EXCEPT !.pages = @ + 1, !.sent = Append(@, dc.before),
                         !.asked = @ \cup {<<dc.kind, dc.parentChannelIDs[dc.p]>>}]
        return(d, err) ==
            [d EXCEPT !.at = "collect", !.err = err,
                      !.failed = IF err THEN @ \cup {<<dc.kind, dc.parentChannelIDs[dc.p]>>} ELSE @]
    IN  IF ans.neterr THEN return(d0, TRUE)
        ELSE IF Breaks(dc.kind, ans.status) THEN return(d0, FALSE)
        ELSE IF ans.status # 200 \/ ~ans.parses THEN return(d0, TRUE)
        ELSE LET d1 == [d0 EXCEPT !.allThreads = @ \o IDsOf(ans.list),
                                  !.got = @ \cup Range(IDsOf(ans.list)),
                                  !.last = ans.list]
             IN  IF ~ans.has_more \/ Len(ans.list) = 0 THEN return(d1, FALSE)
                 ELSE IF GivesBefore(dc.kind, ans.list[Len(ans.list)])
                      THEN [d1 EXCEPT !.before = ans.list[Len(ans.list)].ThreadMetadata.ArchiveTimestamp]
                      ELSE return(d1, FALSE)

\* The service says has_more on fewer than MaxArchivePages pages of a listing.
ArchiveAnswers == ListFailures \cup Lists(ArchivePages, {dc.pages + 1 < MaxArchivePages, FALSE})

getArchivedThreads_Request ==
    /\ dc.at = "listing" /\ dc.kind \in {"public", "private"}
    /\ \E ans \in ArchiveAnswers : dc' = ArchiveRequest(ans)
    /\ UNCHANGED discoverFixed

GetJoinedArchivedPrivateThreads_Request ==
    /\ dc.at = "listing" /\ dc.kind = "joined"
    /\ \E ans \in ArchiveAnswers : dc' = ArchiveRequest(ans)
    /\ UNCHANGED discoverFixed

\* Whether the threads a listing returned are added: if err == nil, lines 613,
\* 621 and 629.
MutCollected(err) == TRUE
Collected(err) == ~err

\* Lines 612-635: the result of a listing is added, the next listing follows.
discoverAllGuildChannelsAndThreads_Collect ==
    /\ dc.at = "collect"
    /\ LET d1 == IF Collected(dc.err)
                 THEN [addChannels(dc, dc.allThreads) EXCEPT !.yielded = @ \cup Range(dc.allThreads)]
                 ELSE dc
       IN  dc' = IF dc.kind = "public" THEN StartListing(d1, dc.p, "private")
                 ELSE IF dc.kind = "private" THEN StartListing(d1, dc.p, "joined")
                 ELSE IF dc.p < Len(dc.parentChannelIDs) THEN StartListing(d1, dc.p + 1, "public")
                 ELSE [d1 EXCEPT !.at = "done"]
    /\ UNCHANGED discoverFixed

InitDiscover ==
    /\ ReqQuiet /\ WalkQuiet /\ PureQuiet /\ mn = NoMain
    /\ dc = [NoDiscovery EXCEPT !.at = "channels"]

NextDiscover ==
    \/ discoverAllGuildChannelsAndThreads_GetGuildChannels
    \/ discoverAllGuildChannelsAndThreads_GetActiveGuildThreads
    \/ getArchivedThreads_Request
    \/ GetJoinedArchivedPrivateThreads_Request
    \/ discoverAllGuildChannelsAndThreads_Collect

SpecDiscover == InitDiscover /\ [][NextDiscover]_vars

(***************************************************************************)
(* Properties of the request executor (specification SpecReq)              *)
(***************************************************************************)
Exhausted == [status |-> 429, err |-> "still rate limited after 5 retries"]

\* C4: for every n from 0 to 5, n consecutive 429 responses followed by a
\* 2xx response make requestWithBody return that 2xx status without error
\* after exactly n+1 HTTP calls (so five 429s and a 200 give the 200 after
\* six calls).
C4_SuccessAfterUpToFive429 ==
    (rq = "returned" /\ reqValid /\ n429 <= 5 /\ ~after.neterr /\ Is2xx(after.status))
        => (result = [status |-> after.status, err |-> "nil"] /\ calls = n429 + 1)

C1_DeletesOnlyOwnMessages ==
    obs.last.id # <<>> => MsgOf(obs.last.id).author = callerID

\* C1, reached: the deep scan has deleted a message of the caller and now
\* stands at a message of another author in the same channel.
C1_Witness ==
    /\ pc = "hmsg" /\ hs.ret = "deep"
    /\ obs.last.by = "scan" /\ obs.last.ch = hs.ch
    /\ hs.page[hs.i].author = otherID

\* The first successful response of the guild search reported
\* total_results = 0.
FirstResponseTotalZero == sw.kind = "guild" /\ sw.pages = 0 /\ sw.exit = "total 0"

\* C9, as stated: when the first successful response of a guild search
\* reports total_results = 0, SearchGuildMessages returns 0 and has issued
\* no message delete.
C9_TotalZeroMeansNoDelete ==
    (pc = "wret" /\ FirstResponseTotalZero) => (sw.count = 0 /\ obs.last.id = <<>>)

\* C9, amended: when the first successful response of a guild search reports
\* total_results = 0, the search loop issues no delete and counts nothing,
\* and SearchGuildMessages returns through the deep scan: it returns 0
\* whenever the deep scan issued no delete, and every delete is the scan's.
C9_TotalZeroLeavesItToDeepScan ==
    FirstResponseTotalZero =>
        /\ sw.totalDeleted = 0 /\ obs.sok = 0
        /\ obs.last.by # "search"
        /\ pc = "wret" => (sw.how = "deep" /\ (obs.last.id = <<>> => sw.count = 0))

\* C9, reached: total_results = 0 on the first response, and the walker
\* returns the two deletes of its deep scan.
C9_Witness ==
    pc = "wret" /\ FirstResponseTotalZero /\ sw.count = 2 /\ obs.last.by = "scan"

\* C10: the count of a search walker's search path is the number of its
\* deletes answered 200 or 204; a delete answered 404 marks the message
\* skippable and is not counted.
C10_CountsAnswered200Or204 ==
    /\ sw.totalDeleted = obs.sok
    /\ (pc = "wret" /\ sw.how = "end") => sw.count = obs.sok
    /\ (obs.last.by = "search" /\ ~obs.last.neterr /\ obs.last.status = 404)
          => obs.last.id \in sw.skippedMessageIDs

\* C10, reached: one page of three hits of the caller, the last of them
\* answered 404, and the walker returns 2.
C10_Witness ==
    /\ pc = "wret" /\ sw.how = "end" /\ sw.pages = 1 /\ sw.count = 2
    /\ obs.last.by = "search" /\ obs.last.status = 404
    /\ Cardinality(sw.skippedMessageIDs) = 1

(***************************************************************************)
(* Properties of a run of PurgeAll (specification Spec)                    *)
(***************************************************************************)
DMChannelIDs == {"d1", "d2", "c1"}

\* C2: a guild in ExcludedGuildIDs and a conversation in
\* ExcludedDMChannelIDs receive no message delete in the phases 1, 2a, 2b
\* and 2c (the only phases that delete messages), whichever source yields
\* them: no delete names a channel of an excluded guild or an excluded
\* conversation.
C2_ExcludedReceiveNoDelete ==
    obs.last.id # <<>> =>
        /\ ~isGuildExcluded(GuildOf(obs.last.ch))
        /\ ~isDMExcluded(obs.last.ch)

\* C3, as stated: a conversation is handed to SearchDMMessages at most
\* once, and one yielded by more than one source is enumerated exactly once
\* by the sweep of phase 3b.
C3_WalkedAtMostOnceSweptOnce ==
    /\ \A c \in DMChannelIDs : obs.walks[c] <= 1
    /\ pc = "done" => \A c \in obs.again : obs.sweeps[c] = 1

\* C3, amended: a conversation is handed to SearchDMMessages at most once;
\* the sweep of phase 3b enumerates exactly once every conversation that a
\* source yielded and that is not excluded, and never an excluded one.
C3_WalkedAtMostOnceSweptUnlessExcluded ==
    /\ \A c \in DMChannelIDs : obs.walks[c] <= 1 /\ obs.sweeps[c] <= 1
    /\ pc = "done" =>
          \A c \in DMChannelIDs :
              obs.sweeps[c] = IF c \in obs.yielded /\ ~isDMExcluded(c) THEN 1 ELSE 0

\* C3, reached: the run is over, and a conversation that is not excluded
\* was yielded by more than one source, walked once and swept once.
C3_Witness ==
    /\ pc = "done"
    /\ \E c \in obs.again : ~isDMExcluded(c) /\ obs.walks[c] = 1 /\ obs.sweeps[c] = 1

\* The steps with which PurgeAll takes up the return of a walker.
WalkerReturnTaken ==
    \/ PurgeAll_GuildDone
    \/ PurgeAll_OpenDMDone
    \/ PurgeAll_HiddenDMDone
    \/ PurgeAll_PackageDMDone

C6_SecondPassDeletesNothing ==
    (tw.pass = 2 /\ Returned) => (ReturnedCount = 0 /\ live = tw.live1)

(***************************************************************************)
(* Properties of the restarted run (specification SpecRestart)             *)
(***************************************************************************)
\* C8: when a run is interrupted after any prefix of its requests and a
\* complete run follows, every message of the caller and every reaction of
\* the caller that an uninterrupted complete run would have removed is
\* removed; what the interrupted run deleted makes no walker of the new run
\* fail (a walker fails in the new run only if one fails in the
\* uninterrupted run); the new run starts with fresh locals only.
C8_RestartRemovesAsMuch ==
    (tw.pass = 3 /\ pc = "done") =>
        /\ live \subseteq tw.live1
        /\ ReactionsLeft \subseteq tw.reacts1
        /\ obs.failed => tw.failed1

\* C8, reached: the interrupted run had deleted a message that the search
\* index still lists, the run after it is complete, and the message and the
\* reaction that the uninterrupted run removed are gone.
C8_Witness ==
    /\ tw.pass = 3 /\ pc = "done"
    /\ tw.count1 > 0 /\ srv.stale
    /\ tw.live1 # IdsOf(msgs) /\ tw.reacts1 # PurgeReactions
    /\ live \subseteq tw.live1 /\ ReactionsLeft \subseteq tw.reacts1

(***************************************************************************)
(* Properties of the fallback of SearchDMMessages (specification SpecWalk) *)
(***************************************************************************)
\* C11: when the search of a conversation is answered 403, 400, 404 or any
\* other status than 200 and 202, SearchDMMessages runs the history scan on
\* that same channel, and at the return of the scan it returns at once, with
\* the number deleted so far plus the count of the scan and with the error
\* of the scan; with nothing deleted before, the result is the scan's.
C11_FallbackReturnsScanCount ==
    [][ /\ (hs.ret \in {"fallback", "fallback other"} /\ pc \in {"hfetch", "hmsg", "hret"})
            => (hs.ch = sw.target /\ sw.kind = "dm")
        /\ (pc = "hret" /\ hs.ret \in {"fallback", "fallback other"})
            => /\ pc' = "wret"
               /\ sw'.count = sw.totalDeleted + hs.count
               /\ sw'.err = hs.err
               /\ (sw.totalDeleted = 0 => sw'.count = hs.count) ]_vars

\* C11, reached: the search was refused, nothing had been deleted, and the
\* walker has returned the two messages its history scan deleted.
C11_Witness ==
    /\ pc = "wret" /\ sw.kind = "dm" /\ sw.how = "fallback"
    /\ sw.totalDeleted = 0 /\ sw.count = 2 /\ ~sw.err

(***************************************************************************)
(* Properties of the sweep phases (specification Spec)                     *)
(***************************************************************************)
\* C12: a guild in ExcludedGuildIDs and a conversation in
\* ExcludedDMChannelIDs receive no reaction removal in the phases 3a and 3b:
\* no removal names a channel of an excluded guild or an excluded
\* conversation.
C12_ExcludedReceiveNoReactionRemoval ==
    obs.react.id # <<>> =>
        /\ ~isGuildExcluded(GuildOf(obs.react.ch))
        /\ ~isDMExcluded(obs.react.ch)

\* C13, as stated: a conversation that is excluded and that a source of the
\* phases 2a-2c yielded is enumerated by the sweep of phase 3b: when
\* PurgeAll returns, it was swept once.
C13_ExcludedDMStillSwept ==
    pc = "done" =>
        \A c \in obs.yielded : c \in opts.ExcludedDMChannelIDs => obs.sweeps[c] = 1

\* C13, amended: a conversation in ExcludedDMChannelIDs is never put into
\* processedDMs, never handed to a walker and never enumerated by the sweep
\* of phase 3b, whichever source yields it; the reactions of the caller in
\* it are kept.
C13_ExcludedDMNeverSwept ==
    \A c \in opts.ExcludedDMChannelIDs :
        /\ c \notin pa.processedDMs
        /\ obs.walks[c] = 0 /\ obs.sweeps[c] = 0
        /\ rr.ch # c
        /\ \A x \in PurgeReactions : MsgOf(x[1]).ch = c => x \in myReacts

\* C13, reached: PurgeAll has returned; the excluded conversation d1 was
\* yielded by a source and was not swept, the caller's reaction in it is
\* kept, and another conversation was swept.
C13_Witness ==
    /\ pc = "done"
    /\ "d1" \in opts.ExcludedDMChannelIDs /\ "d1" \in obs.yielded
    /\ obs.sweeps["d1"] = 0 /\ <<<<4>>, ThumbsUp>> \in myReacts
    /\ \E c \in DMChannelIDs : obs.sweeps[c] = 1

(***************************************************************************)
(* Properties of one reaction sweep (specification SpecSweep)              *)
(***************************************************************************)
\* The positions <<message, reaction>> of a page whose Me flag is set.
MePositions(page) ==
    {p \in UNION {{<<a, b>> : b \in 1..Len(page[a].Reactions)} : a \in 1..Len(page)} :
        page[p[1]].Reactions[p[2]].Me}

PositionBefore(p, q) == p[1] < q[1] \/ (p[1] = q[1] /\ p[2] < q[2])

\* C14: removeReactionsFromChannel issues a removal only for a reaction
\* whose Me flag is set, whoever wrote the message; it issues one removal
\* for each such reaction of each page it reads, in the order of the page,
\* none twice and none left out; its count grows by one exactly with a
\* removal answered 200, 204 or 404, and it returns that count.
C14_OneRemovalPerOwnReaction ==
    [][ /\ pc = "rremove" =>
            LET m == rr.page[rr.i]
                x == m.Reactions[rr.j]
                a == obs'.react
            IN  /\ x.Me
                /\ a.id = m.id /\ a.emoji = x.Emoji /\ a.ch = rr.ch
                /\ rr'.totalRemoved = rr.totalRemoved +
                      (IF ~a.neterr /\ a.status \in {200, 204, 404} THEN 1 ELSE 0)
                /\ pc' = "rremove" =>
                      /\ rr'.page = rr.page
                      /\ PositionBefore(<<rr.i, rr.j>>, <<rr'.i, rr'.j>>)
                      /\ \A p \in MePositions(rr.page) :
                            ~(PositionBefore(<<rr.i, rr.j>>, p)
                                /\ PositionBefore(p, <<rr'.i, rr'.j>>))
                /\ pc' # "rremove" =>
                      \A p \in MePositions(rr.page) : ~PositionBefore(<<rr.i, rr.j>>, p)
        /\ pc = "rfetch" =>
            /\ rr'.totalRemoved = rr.totalRemoved /\ obs'.react = obs.react
            /\ pc' = "rremove" =>
                  /\ rr'.page = SweepPage(rr.ch, rr.beforeID)
                  /\ <<rr'.i, rr'.j>> \in MePositions(rr'.page)
                  /\ \A p \in MePositions(rr'.page) : ~PositionBefore(p, <<rr'.i, rr'.j>>)
            /\ (pc' # "rremove" /\ rr'.beforeID # rr.beforeID) =>
                  MePositions(SweepPage(rr.ch, rr.beforeID)) = {}
        /\ pc' = "rret" => rr'.count = rr'.totalRemoved ]_vars

\* C14, reached: the sweep has returned 2; its last removal was on a message
\* of the caller and was answered 404, and a reaction of the caller on a
\* message of another user is gone.
C14_Witness ==
    /\ pc = "rret" /\ rr.count = 2
    /\ obs.react.status = 404 /\ ~obs.react.neterr
    /\ MsgOf(obs.react.id).author = callerID
    /\ myReacts = {}

(***************************************************************************)
(* Properties of the cursor functions (specification SpecCursor)           *)
(***************************************************************************)
\* A cursor that strconv.ParseUint accepts, with its value.
Parses(x) == x # <<>> /\ (\A i \in 1..Len(x) : x[i] \in 0..9) /\ DigitsValue(x) <= MaxUint

\* The shortest decimal string: no leading zero, but for 0 itself.
IsDecimalOf(x, n) ==
    /\ x # <<>> /\ (\A i \in 1..Len(x) : x[i] \in 0..9)
    /\ (Len(x) > 1 => x[1] # 0)
    /\ DigitsValue(x) = n

\* C15: for two cursors that are not empty and that both parse as unsigned
\* integers, olderSnowflakeID returns one of its two arguments, and the
\* value of what it returns is the smaller of the two values.
C15_OlderIsMinimum ==
    (fn = "olderSnowflakeID" /\ res.done /\ Parses(arg[1]) /\ Parses(arg[2])) =>
        /\ res.val \in {arg[1], arg[2]}
        /\ DigitsValue(res.val) <= DigitsValue(arg[1])
        /\ DigitsValue(res.val) <= DigitsValue(arg[2])

\* C15, reached: of "10" and "9" the second is returned, although "10" is
\* the smaller string.
C15_Witness ==
    /\ fn = "olderSnowflakeID" /\ res.done
    /\ arg = <<<<1, 0>>, <<9>>>> /\ res.val = <<9>>

\* C16: previousSnowflakeID returns the decimal string of x - 1 for a
\* cursor whose value x is positive, "0" for "0" (no wrap-around), and the
\* cursor itself when it does not parse.
C16_PreviousIsDecrement ==
    (fn = "previousSnowflakeID" /\ res.done) =>
        /\ (Parses(arg[1]) /\ DigitsValue(arg[1]) > 0)
              => IsDecimalOf(res.val, DigitsValue(arg[1]) - 1)
        /\ arg[1] = <<0>> => res.val = <<0>>
        /\ ~Parses(arg[1]) => res.val = arg[1]

\* C16, reached: the predecessor of "100" is "99".
C16_Witness ==
    /\ fn = "previousSnowflakeID" /\ res.done
    /\ arg = <<<<1, 0, 0>>>> /\ res.val = <<9, 9>>

(***************************************************************************)
(* Properties of formatEmojiForURL (specification SpecEmoji)               *)
(***************************************************************************)
\* The value of a hexadecimal digit, 16 for a byte that is none.
HexValue(c) ==
    IF c \in 48..57 THEN c - 48 ELSE IF c \in 65..70 THEN c - 55 ELSE 16

\* s is made of %XX triplets and bytes that stand for themselves, none of
\* them above ASCII, and decodes to t.
RECURSIVE PercentEncodes(_, _)
PercentEncodes(s, t) ==
    IF s = <<>> THEN t = <<>>
    ELSE IF t = <<>> THEN FALSE
    ELSE IF s[1] = Percent
         THEN /\ Len(s) >= 3 /\ HexValue(s[2]) < 16 /\ HexValue(s[3]) < 16
              /\ HexValue(s[2]) * 16 + HexValue(s[3]) = t[1]
              /\ PercentEncodes(SubSeq(s, 4, Len(s)), Tail(t))
         ELSE /\ s[1] < 128 /\ s[1] = t[1]
              /\ PercentEncodes(Tail(s), Tail(t))

\* C17: an emoji with an ID that is neither nil nor empty is addressed as
\* its name, a colon and its ID, byte for byte with nothing percent-encoded;
\* an emoji with a nil ID is addressed as the percent-encoding of its name,
\* in which every byte above ASCII, as every byte of a unicode emoji is, is
\* a %XX triplet (U+1F44D is addressed as %F0%9F%91%8D).
C17_EmojiAddress ==
    (fn = "formatEmojiForURL" /\ res.done) =>
        LET e == arg[1]
        IN  /\ (~e.idNil /\ e.ID # <<>>) => res.val = e.Name \o <<Colon>> \o e.ID
            /\ e.idNil =>
                  /\ PercentEncodes(res.val, e.Name)
                  /\ (\A i \in 1..Len(e.Name) : e.Name[i] >= 128)
                        => Len(res.val) = 3 * Len(e.Name)
                  /\ e.Name = <<240, 159, 145, 141>>
                        => res.val = <<37, 70, 48, 37, 57, 70, 37, 57, 49, 37, 56, 68>>

\* C17, reached: {id 555, name pepe} is addressed as pepe:555.
C17_Witness ==
    /\ fn = "formatEmojiForURL" /\ res.done
    /\ arg = <<EmojiInfo(FALSE, <<53, 53, 53>>, <<112, 101, 112, 101>>)>>
    /\ res.val = <<112, 101, 112, 101, 58, 53, 53, 53>>

(***************************************************************************)
(* Properties of main (specification SpecMain)                             *)
(***************************************************************************)
\* C18: no DELETE request is issued before the first question is answered
\* yes: until then PurgeAll is not called, no message and no reaction is
\* removed and main has issued no DELETE itself, and another answer ends
\* the process with code 0.  No unfriend and no leave-guild request is
\* issued before PurgeAll has returned and the second question is answered
\* yes.
C18_ConfirmationsGateDeletes ==
    /\ mn.confirm1 \notin {"yes", "y"} =>
          /\ pc = "idle" /\ pa = NoPurge /\ obs = NoObs
          /\ live = IdsOf(msgs) /\ myReacts = PurgeReactions
          /\ mn.log = {}
    /\ mn.confirm1 \in {"no", ""} => (mn.at = "exit" /\ mn.exit = 0)
    /\ mn.log # {} =>
          /\ mn.confirm1 \in {"yes", "y"} /\ mn.confirm2 \in {"yes", "y"}
          /\ pc = "done" /\ pa.phase = "done"
    /\ mn.at \in {"friends", "unfriend", "leave", "leaving"} =>
          (mn.confirm2 \in {"yes", "y"} /\ pc = "done")

\* C18, reached: both questions were answered yes, PurgeAll has deleted a
\* message and returned, and a friend was removed and a guild left.
C18_Witness ==
    /\ mn.at = "exit" /\ mn.exit = 0
    /\ Confirmed(mn.confirm1) /\ Confirmed(mn.confirm2)
    /\ live # IdsOf(msgs)
    /\ mn.friendsRemoved = 1 /\ mn.serversLeft = 2

(***************************************************************************)
(* Properties of one request without a rate limit (specification SpecReq)  *)
(***************************************************************************)
\* C19: when the response to a call has a status of 2xx, or a status that
\* is neither 2xx nor 429, requestWithBody returns with that status and no
\* error in the step of that call, without another call and without a
\* sleep; when the call fails in transport, it returns the error in that
\* step, without another call.  With no 429 before, it has made one call
\* and has not slept.
C19_OtherAnswersReturnAtOnce ==
    [][ /\ (rq = "running" /\ attempt < 5 /\ reqValid /\ Answer # Status(429)) =>
              /\ rq' = "returned"
              /\ calls' = calls + 1 /\ slept' = slept /\ attempt' = attempt
              /\ result' = IF Answer.neterr
                           THEN [status |-> 0, err |-> "executing request"]
                           ELSE [status |-> Answer.status, err |-> "nil"]
        /\ (rq' = "returned" /\ n429 = 0 /\ reqValid) => (calls' = 1 /\ slept' = 0)
        /\ rq = "returned" => UNCHANGED <<calls, slept, result>> ]_vars

\* C19, reached: the first response was a 500, and the request has returned
\* it with no error after one call and no sleep.
C19_Witness ==
    /\ rq = "returned" /\ reqValid /\ n429 = 0 /\ after = Status(500)
    /\ result = [status |-> 500, err |-> "nil"] /\ calls = 1 /\ slept = 0

(***************************************************************************)
(* Termination of the index waits (specification SpecWalkFair)             *)
(***************************************************************************)
\* C20: a search walker never waits on the index for ever: it does not stay
\* at its search request from some point on, answered 202 or a body with
\* the retry flag each time; every such sequence of responses ends, at the
\* latest after maxSearchIndexWaits of them, with the return of the walker.
C20_IndexWaitsEnd == []<>(pc \notin {"gsearch", "dsearch"})

(***************************************************************************)
(* Properties of the deep scan (specification SpecWalk)                    *)
(***************************************************************************)
\* C21: SearchGuildMessages runs the deep scan exactly when its search loop
\* has ended by a break with totalDeleted = 0: it then scans the channels
\* discovered for the guild, one after the other, and adds the count of
\* the scans to its result; when the loop has ended with deletions the
\* walker returns its count with no deep scan, and a return from the search
\* request (403 or an error) carries the count so far with no deep scan.
C21_DeepScanExactlyAfterEmptyWalk ==
    [][ /\ (pc = "gend" /\ sw.totalDeleted = 0) =>
              \/ pc' = "hfetch" /\ hs'.ret = "deep" /\ hs'.ch = ds'.channelIDs[1]
                                /\ Range(ds'.channelIDs) \subseteq GuildChannels(sw.target)
              \/ pc' = "wret" /\ sw'.how = "deep" /\ sw'.count = 0 /\ ~sw'.err
        /\ (pc = "gend" /\ sw.totalDeleted # 0) =>
              /\ pc' = "wret" /\ sw'.how = "end" /\ ~sw'.err
              /\ sw'.count = sw.totalDeleted /\ ds' = NoDeep /\ hs' = NoScan
        /\ (hs.ret # "deep" /\ hs'.ret = "deep") =>
              pc = "gend" /\ sw.exit # "" /\ sw.totalDeleted = 0
        /\ (pc = "gsearch" /\ pc' = "wret") =>
              /\ sw'.how \in {"403", "request", "status", "parse", "index"}
              /\ sw'.err = (sw'.how # "403")
              /\ sw'.count = sw.totalDeleted /\ ds' = NoDeep /\ hs' = NoScan
        /\ (pc = "hret" /\ hs.ret = "deep") =>
              IF ds.i < Len(ds.channelIDs)
              THEN pc' = "hfetch" /\ hs'.ret = "deep" /\ hs'.ch = ds.channelIDs[ds.i + 1]
              ELSE /\ pc' = "wret" /\ sw'.how = "deep" /\ ~sw'.err
                   /\ sw'.count = sw.totalDeleted + ds.totalDeleted
                                  + (IF hs.err THEN 0 ELSE hs.count) ]_vars

\* C21, reached: a guild walk whose loop ended with nothing deleted has
\* returned after a deep scan that counted deletions.
C21_Witness ==
    /\ pc = "wret" /\ sw.kind = "guild" /\ sw.how = "deep"
    /\ sw.exit # "" /\ sw.totalDeleted = 0 /\ sw.count > 0

\* C22, as stated: a guild walk whose search loop issued a delete (it found
\* a hit authored by the caller that it could delete) returns at the end of
\* the loop without the deep scan, whatever the answers to its deletes.
C22_DeepScanSkippedAfterAnyHit ==
    [][ (pc = "gend" /\ obs.last.by = "search") => (pc' = "wret" /\ sw'.how = "end") ]_vars

\* C22, amended: a guild walk returns at the end of its loop without the
\* deep scan exactly when one of the deletes of its search loop was
\* answered 200 or 204; when every delete was answered otherwise, the deep
\* scan runs as it does after a search without hits.
C22_DeepScanSkippedAfterDeletion ==
    [][ pc = "gend" => ((pc' = "wret" /\ sw'.how = "end") <=> obs.sok > 0) ]_vars

\* C22, reached: a guild walk has returned at the end of its loop with no
\* deep scan, after a delete answered 200 or 204 and another hit skipped.
C22_Witness ==
    /\ pc = "wret" /\ sw.kind = "guild" /\ sw.skippedMessageIDs # {}
    /\ sw.how = "end" /\ obs.sok > 0 /\ sw.count = obs.sok

OldestOf(S) == CHOOSE x \in S : \A y \in S : ParseUint(x).n <= ParseUint(y).n

\* C24: at the end of a search page the walker takes the oldest ID among
\* the hits of the caller that the page listed, those passed over as
\* duplicates or as skippable included.  When the page listed no such ID,
\* or when previousSnowflakeID of the oldest equals the cursor, the walker
\* leaves its loop with the cursor as it was; otherwise the cursor becomes
\* previousSnowflakeID of the oldest and the walker searches again.
C24_CursorIsPredecessorOfOldestHit ==
    [][ (pc \in {"gpage", "dpage"} /\ pc' # pc) =>
            LET own == sw.hits \ {<<>>}
                left == pc' \in {"gend", "wret"} /\ sw'.maxID = sw.maxID /\ ~sw'.err
            IN  IF own = {} THEN left /\ sw'.exit = "no hit"
                ELSE IF previousSnowflakeID(OldestOf(own)) = sw.maxID
                     THEN left /\ sw'.exit = "no progress"
                ELSE /\ pc' \in {"gsearch", "dsearch"}
                     /\ sw'.maxID = previousSnowflakeID(OldestOf(own)) ]_vars

\* C24, reached: the first page listed the hits 10 and 9 of the caller, 10
\* was deleted and 9 became skippable, and the cursor is 8, the predecessor
\* of the older one, for the second search.
C24_Witness ==
    /\ pc \in {"gsearch", "dsearch"} /\ sw.pages = 1 /\ sw.maxID = <<8>>
    /\ sw.skippedMessageIDs = {<<9>>} /\ sw.totalDeleted = 1 /\ <<1, 0>> \notin live

\* C25: on a service that lists only messages with an ID not above the
\* max_id it was given, the cursor of a search walker gets strictly smaller
\* with every page after which the loop goes on, so a walk reads at most
\* one page more than the container has messages of the caller; and a
\* walker that is not kept waiting for the index for ever returns.
C25_CursorDecreasesWalkEnds ==
    /\ [][ (pc \in {"gpage", "dpage"} /\ pc' \in {"gsearch", "dsearch"}) =>
              /\ ~ParseUint(sw'.maxID).err
              /\ sw.maxID # <<>> => ParseUint(sw'.maxID).n < ParseUint(sw.maxID).n ]_vars
    /\ [](sw.pages <= Cardinality({m \in msgs : m.author = callerID}) + 1)
    /\ (<>[](pc \in {"gsearch", "dsearch"}) \/ <>(pc = "wret"))

\* C25, reached: the walk has read as many pages as the bound allows, each
\* with a smaller cursor, down to the ID 0, and has returned.
C25_Witness ==
    /\ pc = "wret" /\ sw.pages = 4 /\ sw.maxID = <<0>> /\ sw.exit = "no progress"

(***************************************************************************)
(* Properties of the skip set (specification SpecPage)                     *)
(***************************************************************************)
\* A message delete is issued in this step.
DeleteIssued == obs'.last.tick # obs.last.tick

\* The skip set and the set of the page, as a search loop keeps them: the
\* skip set never loses an ID during the walk, the set of the page none
\* during the page; a delete of the loop is for an ID in neither, puts the
\* ID into the set of the page, and puts it into the skip set when it is
\* answered 403, 404 or 400; a new hit of the caller for which no delete is
\* issued has no ID, is in the skip set already or (guild walker, a hit
\* without channel ID) is put into it.
SkipSetKept ==
    /\ sw.skippedMessageIDs \subseteq sw'.skippedMessageIDs
    /\ (pc \in {"gpage", "dpage"} /\ pc' = pc) =>
          sw.seenInThisPage \subseteq sw'.seenInThisPage
    /\ (DeleteIssued /\ obs'.last.by = "search") =>
          /\ pc \in {"gpage", "dpage"}
          /\ obs'.last.id \notin sw.skippedMessageIDs \cup sw.seenInThisPage
          /\ obs'.last.id \in sw'.seenInThisPage
          /\ (~obs'.last.neterr /\ obs'.last.status \in {403, 404, 400}) =>
                obs'.last.id \in sw'.skippedMessageIDs
    /\ (pc \in {"gpage", "dpage"} /\ ~DeleteIssued) =>
          \A id \in sw'.hits \ sw.hits :
              \/ id = <<>>
              \/ id \in sw.skippedMessageIDs
              \/ pc = "gpage" /\ id \in sw'.skippedMessageIDs

\* C26, as stated: within one call of a walker the skip set is kept as
\* described, and a message whose ID is in it receives no delete any more
\* until the walker returns.
C26_SkippedNeverDeletedAgain ==
    [][SkipSetKept /\ (DeleteIssued => obs'.last.id \notin sw.skippedMessageIDs)]_vars

\* C26, amended: within one call of a walker the skip set is kept as
\* described, so that a message whose ID is in it receives no delete from
\* the search loop any more, and no message receives two deletes of the
\* loop within one page.  A delete issued for it by the deep scan or by the
\* fallback scan of the same call is for a message that still exists: one
\* whose delete was answered 403 or 400, or whose hit had no channel ID.
C26_SkippedNeverDeletedAgainBySearch ==
    [][ /\ SkipSetKept
        /\ (DeleteIssued /\ obs'.last.id \in sw.skippedMessageIDs) =>
              obs'.last.by = "scan" /\ obs'.last.id \in live ]_vars

\* C26, reached: message 0 is in the skip set and still exists, the last
\* delete was the one of message 10 on the first page, the second page
\* listed message 0 again, and the walker has left its loop for lack of
\* progress and returned its count of 1 with no scan.
C26_Witness ==
    /\ pc = "wret" /\ sw.how = "end" /\ sw.exit = "no progress" /\ sw.pages = 2
    /\ sw.skippedMessageIDs = {<<0>>} /\ <<0>> \in live /\ sw.count = 1
    /\ obs.last.id = <<1, 0>> /\ obs.last.by = "search"

(***************************************************************************)
(* Search statuses of the guild walker (specification SpecWalk)            *)
(***************************************************************************)
\* C27: when SearchGuildMessages has returned on a search response of 403,
\* it has returned no error and the count of the deletes answered 200 or
\* 204 so far; when it has returned on another status that is neither 200
\* nor 202, it has returned an error and that count; in both cases without
\* the deep scan.
C27_Guild403SkipsOtherStatusFails ==
    (pc = "wret" /\ sw.kind = "guild" /\ sw.how \in {"403", "status"}) =>
        /\ sw.err = (sw.how = "status")
        /\ sw.count = obs.sok /\ sw.count = sw.totalDeleted
        /\ ds = NoDeep /\ hs = NoScan /\ obs.last.by # "scan"

\* C27, reached: the walker deleted a message on its first page, its second
\* search was answered 403, and it has returned 1 with no error.
C27_Witness ==
    /\ pc = "wret" /\ sw.kind = "guild" /\ sw.how = "403"
    /\ sw.pages = 1 /\ sw.count = 1 /\ ~sw.err

(***************************************************************************)
(* Properties of the history scan (specification SpecWalk)                 *)
(***************************************************************************)
\* C28: iterateAndDeleteChannel issues its deletes for messages of the
\* caller; its count goes up by one with every delete answered 200, 204 or
\* 404 and with nothing else; a delete answered otherwise, or failed in
\* transport, leaves the count and the scan goes on to the next message,
\* the next page or its regular end; and the scan returns its count.
C28_ScanCountsAnswered200204404 ==
    [][ /\ (DeleteIssued /\ obs'.last.by = "scan") =>
              /\ pc = "hmsg" /\ obs'.last.id = hs.page[hs.i].id /\ obs'.last.ch = hs.ch
              /\ MsgOf(obs'.last.id).author = callerID
              /\ hs'.totalDeleted =
                    hs.totalDeleted + (IF /\ ~obs'.last.neterr
                                          /\ obs'.last.status \in {200, 204, 404}
                                       THEN 1 ELSE 0)
              /\ ~hs'.err
              /\ IF hs.i < Len(hs.page) THEN pc' = "hmsg" /\ hs'.i = hs.i + 1
                 ELSE IF Len(hs.page) < PageLimit THEN pc' = "hret"
                 ELSE pc' = "hfetch"
        /\ (pc \in {"hfetch", "hmsg"} /\ ~DeleteIssued) => hs'.totalDeleted = hs.totalDeleted
        /\ (pc # "hret" /\ pc' = "hret") => hs'.count = hs.totalDeleted \/ DeleteIssued
        /\ pc' = "hret" => hs'.count = hs'.totalDeleted ]_vars

\* C28, reached: a scan has returned a count of 2 after three deletes, the
\* last of which was answered 500 and left its message in place.
C28_Witness ==
    /\ pc = "hret" /\ hs.count = 2 /\ ~hs.err
    /\ obs.last.by = "scan" /\ obs.last.status = 500 /\ obs.last.id \in live
    /\ Cardinality({m \in msgs : m.author = callerID /\ m.ch = hs.ch}) = 3

(***************************************************************************)
(* Properties of the history paging (specification SpecHistory)            *)
(***************************************************************************)
\* The messages of the channel that exist and are older than before.
OlderThan(ch, before) ==
    {m.id : m \in {x \in msgs : /\ x.ch = ch /\ x.id \in live
                                /\ (before = <<>> \/ IdLess(x.id, before))}}

\* What a service that honours before returns: the newest messages older
\* than before, newest first, a full page of them or all that are left.
HonoursBefore(q, ch, before) ==
    LET O == OlderThan(ch, before)
    IN  /\ Len(q) = (IF Cardinality(O) < PageLimit THEN Cardinality(O) ELSE PageLimit)
        /\ \A k \in 1..Len(q) : q[k] \in O
        /\ \A k, l \in 1..Len(q) : k < l => IdLess(q[l], q[k])
        /\ \A id \in O : (\E k \in 1..Len(q) : q[k] = id)
                            \/ (\A k \in 1..Len(q) : IdLess(id, q[k]))

PageIDs(page) == [k \in 1..Len(page) |-> page[k].id]

\* One step of a history loop whose locals are f before the step and g
\* after it: a page that is read is the one a service that honours before
\* returns for the cursor; its messages are taken in their order; after the
\* last, the cursor is the ID of the last message, older than the cursor
\* before, the loop goes on when the page was full, and it ends when the
\* page was short, with no message of the channel left that is older than
\* the cursor.
PagingStep(fetch, inside, ret, f, g) ==
    /\ g.beforeID # f.beforeID => (f.beforeID = <<>> \/ IdLess(g.beforeID, f.beforeID))
    /\ (pc = fetch /\ pc' = inside) =>
          /\ g.page # <<>> /\ HonoursBefore(PageIDs(g.page), f.ch, f.beforeID)
          /\ g.beforeID = f.beforeID /\ g.i >= 1
    /\ (pc = fetch /\ pc' = fetch) =>
          /\ OlderThan(f.ch, f.beforeID) # {}
          /\ g.beforeID \in OlderThan(f.ch, f.beforeID)
          /\ Cardinality({id \in OlderThan(f.ch, f.beforeID) : ~IdLess(id, g.beforeID)})
                = PageLimit
    /\ (pc = fetch /\ pc' = ret /\ g.beforeID # f.beforeID) =>
          /\ g.beforeID \in OlderThan(f.ch, f.beforeID)
          /\ OlderThan(f.ch, g.beforeID) = {}
          /\ Cardinality(OlderThan(f.ch, f.beforeID)) < PageLimit
    /\ (pc = inside /\ pc' = inside) =>
          /\ g.page = f.page /\ g.beforeID = f.beforeID
          /\ g.i > f.i \/ (g.i = f.i /\ "j" \in DOMAIN f /\ g.j > f.j)
    /\ (pc = inside /\ pc' = fetch) =>
          /\ Len(f.page) = PageLimit /\ g.beforeID = f.page[Len(f.page)].id
    /\ (pc = inside /\ pc' = ret) =>
          /\ Len(f.page) < PageLimit /\ g.beforeID = f.page[Len(f.page)].id
          /\ \A id \in OlderThan(f.ch, g.beforeID) : id \notin live'

\* C29: both history loops page as described by PagingStep, so that the
\* pages of one call follow one another without gap or overlap, each below
\* the one before, down to the end of the history; the deleter takes every
\* message of its page, one after the other, and returns.
C29_HistoryPagingVisitsAllOnce ==
    /\ [][ /\ PagingStep("hfetch", "hmsg", "hret", hs, hs')
           /\ PagingStep("rfetch", "rremove", "rret", rr, rr')
           /\ (pc = "hfetch" /\ pc' = "hmsg") => hs'.i = 1
           /\ (pc = "hmsg" /\ pc' = "hmsg") => hs'.i = hs.i + 1
           /\ (pc = "hmsg" /\ pc' # "hmsg") => hs.i = Len(hs.page) ]_vars
    /\ (pc = "hfetch") ~> (pc = "hret")

\* C29, reached: the deleter has read two full pages and a short one, the
\* five messages of the conversation, and has returned with the ID of the
\* oldest for its cursor.
C29_Witness ==
    /\ pc = "hret" /\ ~hs.err /\ hs.beforeID = <<4>> /\ hs.count = 3
    /\ live = {<<8>>, <<5>>}

\* The sources of a wait that a 429 carries: the two headers when they parse
\* as numbers, the body's retry_after when it is set (greater than zero).
SourcesPresent(retryAfter, resetAfter, bodyRetryAfter) ==
    {h.v : h \in {x \in {retryAfter, resetAfter} : IsNumber(x)}}
        \cup {b.v : b \in {x \in {bodyRetryAfter} : IsNumber(x) /\ Greater(x.v, Ms(0))}}

LargestOf(S) == CHOOSE x \in S : \A y \in S : ~Greater(y, x)

\* The base wait as the sentence has it: the largest of the sources present,
\* 5 units when there is none.
StatedBaseWait(retryAfter, resetAfter, bodyRetryAfter) ==
    LET P == SourcesPresent(retryAfter, resetAfter, bodyRetryAfter)
    IN  IF P = {} THEN Ms(5000) ELSE LargestOf(P)

\* What the buffer and the floors of lines 209-217 make of a base wait.
BufferedWait(base, m, r) ==
    LET w4 == Plus(base, 1000)
        w5 == IF Less(w4, Ms(2000)) THEN Ms(2000) ELSE w4
    IN  IF m = "GET" /\ IsStrictArchiveRoute(r) /\ Less(w5, Ms(6000)) THEN Ms(6000) ELSE w5

\* C30: on a 429 the base wait is the Retry-After header when present, raised
\* to the reset-after header when that is larger and to the body's
\* retry_after when that is larger than both, and the default of 5 units
\* only when none of the three is present: the wait computed is the buffer
\* and the floors applied to that base.
C30_DefaultOnlyWithoutSources ==
    res.done => res.val.waitTime = BufferedWait(StatedBaseWait(arg[1], arg[2], arg[3]), arg[4], arg[5])

\* C30, what the code does: the default is where the base wait starts, a
\* Retry-After header that parses replaces it, and the other two sources
\* only raise what they find; without a Retry-After header they are
\* measured against the default.
C30_DefaultIsFloorWithoutRetryAfter ==
    res.done =>
        LET start == IF IsNumber(arg[1]) THEN {arg[1].v} ELSE {Ms(5000)}
            rest == SourcesPresent(Absent, arg[2], arg[3])
        IN  res.val.waitTime = BufferedWait(LargestOf(start \cup rest), arg[4], arg[5])

\* C30: a 429 without Retry-After, with a reset-after of 0.8 units and no
\* body value, on a route without the archive floor, has been waited for.
C30_Witness ==
    /\ res.done /\ fn = "waitTime"
    /\ arg[1] = Absent /\ arg[2] = Num(800) /\ arg[3] = Absent
    /\ arg[5] = OtherRoute
    /\ res.val.waitTime = Ms(6000)

\* The delays a 429 indicates: every one of the three fields that is a number.
IndicatedDelays(retryAfter, resetAfter, bodyRetryAfter) ==
    {h.v : h \in {x \in {retryAfter, resetAfter, bodyRetryAfter} : IsNumber(x)}}

\* C31: the sleep after a 429 lasts at least 2 units, and at least d + 1
\* units where d is the largest delay the response indicated, whatever the
\* three fields hold.
C31_SleepCoversIndicatedDelay ==
    res.done =>
        LET D == IndicatedDelays(arg[1], arg[2], arg[3])
        IN  /\ res.val.slept >= 2000
            /\ D # {} => ~Less(Ms(res.val.slept), Plus(LargestOf(D), 1000))

\* C32: after a 429 that answers a GET of the private archived-thread
\* listing of a parent channel or of the joined private archived-thread
\* listing, the sleep before the retry is at least 6 units.
C32_ArchiveListingsSleepSix ==
    (res.done /\ arg[4] = "GET" /\ arg[5] \in {PrivateArchiveRoute, JoinedPrivateArchiveRoute})
        => res.val.slept >= 6000

\* The listings of a discovery: the channel list, the active threads and
\* the three archive listings of every parent channel.
ListingsOf(parents) ==
    {<<"channels", "">>, <<"active", "">>}
        \cup {<<k, parents[i]>> : k \in {"public", "private", "joined"}, i \in 1..Len(parents)}

\* C33: whichever single listing fails (channel list, active threads, an
\* archive listing of a parent), the discovery queries all other listings
\* and returns the containers they yield.
C33_NoFailureEndsDiscovery ==
    dc.at = "done" =>
        /\ {<<"channels", "">>, <<"active", "">>} \subseteq dc.asked
        /\ dc.asked = ListingsOf(dc.parentChannelIDs)
        /\ dc.yielded \subseteq Range(dc.channelIDs)

\* C33, what the code does: an error of the channel list ends the discovery
\* with nothing queried further and nothing returned; after a channel list
\* without error every other listing is queried, whichever of them fail, and
\* the containers of those that return without error are returned.
C33_OnlyChannelListFailureEndsDiscovery ==
    dc.at = "done" =>
        IF <<"channels", "">> \in dc.failed
        THEN dc.asked = {<<"channels", "">>} /\ dc.channelIDs = <<>>
        ELSE /\ dc.asked = ListingsOf(dc.parentChannelIDs)
             /\ dc.yielded \subseteq Range(dc.channelIDs)

\* C33, reached: the active threads and the public archive of the first of
\* two parents have failed, the joined archive of the second parent was
\* still queried and its thread is returned.
C33_Witness ==
    /\ dc.at = "done" /\ Len(dc.parentChannelIDs) = 2
    /\ {<<"active", "">>, <<"public", dc.parentChannelIDs[1]>>} \subseteq dc.failed
    /\ dc.kind = "joined" /\ ~dc.err /\ dc.allThreads = <<"t1">>
    /\ "t1" \in Range(dc.channelIDs)

\* C34: the threads an archive listing has retrieved are in the result of
\* the discovery, also when the listing fails on a later page.
C34_EarlierPagesAreKept ==
    dc.at = "done" => dc.got \subseteq Range(dc.channelIDs)

\* C35: the list under construction and the list returned hold every
\* container ID at most once.
C35_NoContainerTwice ==
    /\ \A i, j \in 1..Len(dc.channelIDs) : dc.channelIDs[i] = dc.channelIDs[j] => i = j
    /\ Range(dc.channelIDs) = dc.seen

\* C35, reached: the thread t1 was in the channel list and among the active
\* threads, t2 was among the active threads and twice in the last archive
\* listing, and the list returned holds each of them once.
C35_Witness ==
    /\ dc.at = "done" /\ ~dc.err /\ dc.allThreads = <<"t2", "t2">>
    /\ dc.channelIDs = <<"c1", "v1", "t1", "t2">>
    /\ dc.failed = {}

\* C36: an archive listing that has received a page and goes on to request
\* another one does so with a before bound that is not empty and is the
\* archive timestamp of the last thread of the page before.
C36_FollowUpRequestsAreBounded ==
    (dc.at = "listing" /\ dc.pages >= 1) =>
        /\ dc.before # ""
        /\ dc.before = dc.last[Len(dc.last)].ThreadMetadata.ArchiveTimestamp

\* The phases of PurgeAll in the order of its text.
PhaseRank(ph) ==
    CASE ph = "p1" -> 1 [] ph = "p2a" -> 2 [] ph = "p2b" -> 3 [] ph = "p2c" -> 4
      [] ph = "p3a" -> 5 [] ph = "p3b" -> 6 [] ph = "done" -> 7 [] OTHER -> 0

\* A message-deletion walker is running or has just returned.
DeletionRuns == pc \in {"gsearch", "gpage", "gend", "dsearch", "dpage", "hfetch", "hmsg", "hret", "wret"}
\* The reaction sweep of a container is running or has just returned.
SweepRuns == pc \in {"p3achan", "rfetch", "rremove", "rret"}

\* C37: PurgeAll goes through guild messages, open DMs, relationship DMs,
\* data-package DMs (only with a path), guild reaction sweep and DM reaction
\* sweep in this order and leaves out none but the data-package phase; the
\* deletion walkers run only before the first sweep phase and the reaction
\* sweep only from it on.
C37_PhasesInOrder ==
    /\ [][ /\ PhaseRank(pa'.phase) >= PhaseRank(pa.phase)
           /\ PhaseRank(pa'.phase) > PhaseRank(pa.phase) =>
                 \/ PhaseRank(pa'.phase) = PhaseRank(pa.phase) + 1
                 \/ pa.phase = "p2b" /\ pa'.phase = "p3a"
           /\ pa'.phase = "p2c" => opts.dataPackagePath
           /\ obs'.last.tick # obs.last.tick => PhaseRank(pa.phase) \in 1..4
           /\ obs'.react # obs.react => PhaseRank(pa.phase) \in 5..6 ]_vars
    /\ [](DeletionRuns => PhaseRank(pa.phase) \in 1..4)
    /\ [](SweepRuns => PhaseRank(pa.phase) \in 5..6)

\* C37, reached: a run with a data package has returned after a deletion
\* in the package phase and the removal of a reaction.
C37_Witness ==
    /\ pc = "done" /\ pa.phase = "done" /\ opts.dataPackagePath
    /\ pa.totalDeleted > 0 /\ pa.totalReactionsRemoved > 0
    /\ \E c \in Containers : obs.walks[c] > 0 /\ obs.sweeps[c] > 0

\* a comes before b in the order by length, then lexicographic.
ShorterOrSmaller(a, b) ==
    \/ Len(a) < Len(b)
    \/ /\ Len(a) = Len(b)
       /\ \E i \in 1..Len(a) : a[i] < b[i] /\ \A j \in 1..(i - 1) : a[j] = b[j]

\* C38: both functions return a string for all arguments.  Of two strings
\* that are not empty and of which one does not parse, olderSnowflakeID
\* returns the one that comes first by length, then lexicographically; an
\* empty currentOldest gives way to a candidate that is not empty, an empty
\* candidate leaves currentOldest as it is.
C38_FallbackByLengthThenLexicographic ==
    /\ (fn \in {"olderSnowflakeID", "previousSnowflakeID"} /\ res.done) =>
          \E k \in 0..MaxCursorLen : res.val \in [1..k -> 0..NonDigit]
    /\ (fn = "olderSnowflakeID" /\ res.done) =>
          /\ arg[2] = <<>> => res.val = arg[1]
          /\ (arg[1] = <<>> /\ arg[2] # <<>>) => res.val = arg[2]
          /\ (arg[1] # <<>> /\ arg[2] # <<>> /\ (~Parses(arg[1]) \/ ~Parses(arg[2]))) =>
                /\ res.val \in {arg[1], arg[2]}
                /\ ~ShorterOrSmaller(arg[1], res.val)
                /\ ~ShorterOrSmaller(arg[2], res.val)

\* C38, reached: of "9x" and "1x", which do not parse and are equally long,
\* the candidate "1x" is returned.
C38_Witness ==
    /\ fn = "olderSnowflakeID" /\ res.done
    /\ arg = <<<<9, NonDigit>>, <<1, NonDigit>>>> /\ res.val = <<1, NonDigit>>

\* Two cursors are the same string or the same number.
SameCursor(u, v) == u = v \/ (Parses(u) /\ Parses(v) /\ DigitsValue(u) = DigitsValue(v))

\* The orders in which three hits can be listed.
Orders(h) ==
    {<<h[p[1]], h[p[2]], h[p[3]]>> : p \in {q \in [1..3 -> 1..3] : \A i, j \in 1..3 : q[i] = q[j] => i = j}}

\* No leading zero: a string of digits is "0" or starts with another digit.
Canonical(x) == (Len(x) > 1 /\ \A i \in 1..Len(x) : x[i] \in 0..9) => x[1] # 0

\* C39: olderSnowflakeID(a, b) and olderSnowflakeID(b, a) are the same
\* cursor for all cursors that are not empty, and the oldest hit of a page
\* is the same cursor for every order of its hits, numeric or not.
C39_OldestHitIgnoresOrder ==
    res.done =>
        /\ \A i, j \in 1..3 :
              SameCursor(olderSnowflakeID(arg[i], arg[j]), olderSnowflakeID(arg[j], arg[i]))
        /\ \A o \in Orders(arg) : SameCursor(oldestHitID(o), res.val)

\* C39, what the code gives: the two orders of a pair always give the same
\* cursor; the oldest hit of a page is the same number for every order when
\* all hits parse, and the same string for every order when no hit has a
\* leading zero.
C39_OldestHitIgnoresOrderOfCanonicalIDs ==
    res.done =>
        /\ \A i, j \in 1..3 :
              SameCursor(olderSnowflakeID(arg[i], arg[j]), olderSnowflakeID(arg[j], arg[i]))
        /\ (\A i \in 1..3 : Parses(arg[i])) =>
              \A o \in Orders(arg) : SameCursor(oldestHitID(o), res.val)
        /\ (\A i \in 1..3 : Canonical(arg[i])) =>
              \A o \in Orders(arg) : oldestHitID(o) = res.val

\* C39, reached: the hits "11", "1x" and "10" were folded to "10", the
\* third of them.
C39_Witness ==
    /\ res.done /\ fn = "oldestHitID"
    /\ arg = <<<<1, 1>>, <<1, NonDigit>>, <<1, 0>>>> /\ res.val = <<1, 0>>


\* C40: when PurgeAll has returned its result, TotalMessagesDeleted is the
\* number of message deletions of the run that were answered 200 or 204.
C40_TotalIsDeletesAnswered2xx ==
    (pc = "done" /\ pa.phase = "done") => pa.totalDeleted = obs.ok

=============================================================================
